---- MODULE Spec2Model ----
(***************************************************************************)
(* Model of the heuristic stuck-detection engine of                        *)
(* backup/stuck-detector-extension/extension.ts: three sliding windows     *)
(* (edits, cursor samples, file switches), the idle watchdog timer and the *)
(* single-in-flight hint dispatch (offerSuggestion); and of the            *)
(* classifier-driven StuckDetector of extension/src/extension.ts: its      *)
(* signal counters, error registry, cursor buffer, focus ring and          *)
(* monitoring switch.                                                      *)
(*                                                                         *)
(* Time is the value Date.now() returns, in milliseconds.  A timer fires   *)
(* exactly at its deadline: the clock never advances past a pending        *)
(* deadline, and host events that coincide with a deadline may be handled  *)
(* before or after the timer callback.                                     *)
(***************************************************************************)
EXTENDS Integers, Sequences, FiniteSets, TLC

\* ---------------------------------------------------------------- constants
WINDOW_MS == 5000
IDLE_MS == 30000
GUARD_MS == 10000
CHURN_MIN == 5
CURSOR_MIN == 8
JUMP_LINES == 5
JUMP_MIN == 3
FILE_MIN == 4
UNIQUE_MIN == 2
WORD_MIN == 3
CURSOR_RING == 50
FOCUS_RING == 20
POLL_MS == 30000
START_DELAY_MS == 2000
ANSWER_COOLDOWN_MS == 300000

\* ------------------------------------------------------------------- bounds
ChurnMaxTime == 7500
CursorMaxTime == 5000
FileMaxTime == 5000
DispatchMaxTime == 30000
MaxEdits == 7
MaxCursor == 9
MaxFiles == 6
CrossMaxSamples == 7
IdleRearmAt == 29900
IdleMaxTime == 60000
IdleMaxCursor == 2
DetectorMaxEvents == 3
DetectorMaxTime == 10000
HintMaxPosts == 4
EditMaxBatches == 3
FocusMaxSwitches == 21
FocusMaxTime == 30000
RingMaxMoves == 51
RingMaxOthers == 2
RingMaxChecks == 2
BufferMaxMoves == 51
MonitorMaxTime == 62000
MonitorMaxToggles == 4
AnswerMaxHints == 3
AnswerMaxTime == 600001
CrossMaxTime == 30000

\* ------------------------------------------------------------------- inputs
Deltas == {2500}
LongDeltas == {10000}
WindowDeltas == {5000}
Lines == {0, 5, 11}
FarLines == {0, 11}
Files == {"a.ts", "b.ts", "c.ts"}
NoWord == "<none>"
Words == {"", "ab", "const", "let", "fetch"}
Outcomes == {"ok", "fail", "never"}
Undefined == -1
NoEditor == [present |-> FALSE, line |-> 0]
OneEditor == {NoEditor, [present |-> TRUE, line |-> 0]}
FarEditors == {NoEditor} \cup [present : {TRUE}, line : FarLines]
WordRanges == {NoWord} \cup Words
PlainEdit == [webview |-> FALSE, changes |-> 1, reason |-> "none"]
PlaceholderKey == "your_dedalus_api_key_here"
EnvKeys == {"", PlaceholderKey, "dd-live-key"}
TextChanges == {PlainEdit,
                [webview |-> TRUE, changes |-> 1, reason |-> "none"],
                [webview |-> FALSE, changes |-> 0, reason |-> "none"],
                [webview |-> FALSE, changes |-> 1, reason |-> "undo"],
                [webview |-> FALSE, changes |-> 1, reason |-> "redo"]}

VARIABLES
    envDedalusKey,        \* process.env.DEDALUS_API_KEY (line 40), "" when unset
    userMode,             \* 'student' or 'professor' (activate, line 82)
    now,                  \* Date.now()
    changeHistory,        \* line 58: {timestamp, changes}
    cursorHistory,        \* line 60: {timestamp, line}
    fileHistory,          \* line 59: {timestamp, filePath}
    lastActivity,         \* line 61: {timestamp, line, filePath}
    idleTimer,            \* line 62: deadline of the handle held, or Undefined
    pendingIdle,          \* deadlines of the scheduled checkIdleState callbacks
    textListener,         \* line 63: a listener handle is held or not
    cursorListener,       \* line 64
    activeEditorListener, \* line 65
    registered,           \* per channel, the listeners registered with the host and not disposed
    isHintInProgress,     \* line 66
    dispatches,           \* the offerSuggestion calls whose guard is not cleared
    hintRequests,         \* number of dedalusClient.chat.create calls for a hint
    categorizeCalls,      \* number of categorizeKeyword calls
    analyticsWrites,      \* number of addDoc calls
    lastEval,             \* outcome of checkHeuristics in the step just taken
    detector              \* the StuckDetector object (extension/src/extension.ts 75-100)

windowVars == <<changeHistory, cursorHistory, fileHistory>>
idleVars == <<lastActivity, idleTimer, pendingIdle>>
listenerVars == <<textListener, cursorListener, activeEditorListener, registered>>
dispatchVars == <<isHintInProgress, dispatches, hintRequests, categorizeCalls, analyticsWrites>>
vars == <<envDedalusKey, userMode, now, changeHistory, cursorHistory, fileHistory, lastActivity,
          idleTimer, pendingIdle, textListener, cursorListener, activeEditorListener, registered,
          isHintInProgress, dispatches, hintRequests, categorizeCalls, analyticsWrites,
          lastEval, detector>>

\* ------------------------------------------------------------------ helpers
\* process.env.DEDALUS_API_KEY || manualEnv.DEDALUS_API_KEY || placeholder
DEDALUS_API_KEY == IF envDedalusKey = "" THEN PlaceholderKey ELSE envDedalusKey

\* !DEDALUS_API_KEY || DEDALUS_API_KEY.includes("your_dedalus_api_key")
KeyMissing == DEDALUS_API_KEY = "" \/ DEDALUS_API_KEY = PlaceholderKey

\* activate reached the registerCommand calls: the SDK initialization did not
\* throw, so its catch block did not return from activate.
CommandsRegistered == ~KeyMissing

Abs(x) == IF x < 0 THEN -x ELSE x

NoActivity == [timestamp |-> 0, line |-> -1, filePath |-> ""]

NoEval == [heuristic |-> "none", shouldTrigger |-> FALSE, offered |-> FALSE]

\* Prune keeping the sample that is exactly WINDOW_MS old
Prune_Closed(h, t) == SelectSeq(h, LAMBDA c : t - c.timestamp <= WINDOW_MS)

\* changeHistory.filter(c => now - c.timestamp < WINDOW_MS)
Prune(h, t) == SelectSeq(h, LAMBDA c : t - c.timestamp < WINDOW_MS)

\* LineJumps counting a move of exactly 5 lines as a jump
LineJumps_AtLeast(h) == Cardinality({i \in 2..Len(h) : Abs(h[i].line - h[i-1].line) >= JUMP_LINES})

\* cursorHistory.filter((curr, i, arr) => i > 0 && |curr.line - prev.line| > 5).length
LineJumps(h) == Cardinality({i \in 2..Len(h) : Abs(h[i].line - h[i-1].line) > JUMP_LINES})

\* new Set(fileHistory.map(f => f.filePath)).size
UniqueFiles(h) == Cardinality({h[i].filePath : i \in 1..Len(h)})

\* ShouldTrigger with the churn threshold taken as "at least 5"
ShouldTrigger_ChurnAtLeast(heuristic, ch, cu, fh) ==
    CASE heuristic = "churn" -> Len(ch) >= CHURN_MIN
      [] heuristic = "cursor" -> Len(cu) > CURSOR_MIN /\ LineJumps(cu) > JUMP_MIN
      [] heuristic = "file" -> Len(fh) > FILE_MIN /\ UniqueFiles(fh) > UNIQUE_MIN
      [] heuristic = "idle" -> TRUE

\* ShouldTrigger with the file rule counting switches only, not distinct files
ShouldTrigger_FileCountOnly(heuristic, ch, cu, fh) ==
    CASE heuristic = "churn" -> Len(ch) > CHURN_MIN
      [] heuristic = "cursor" -> Len(cu) > CURSOR_MIN /\ LineJumps(cu) > JUMP_MIN
      [] heuristic = "file" -> Len(fh) > FILE_MIN
      [] heuristic = "idle" -> TRUE

\* the shouldTrigger decision of checkHeuristics, on the pruned windows
ShouldTrigger(heuristic, ch, cu, fh) ==
    CASE heuristic = "churn" -> Len(ch) > CHURN_MIN
      [] heuristic = "cursor" -> Len(cu) > CURSOR_MIN /\ LineJumps(cu) > JUMP_MIN
      [] heuristic = "file" -> Len(fh) > FILE_MIN /\ UniqueFiles(fh) > UNIQUE_MIN
      [] heuristic = "idle" -> TRUE

\* !contextWord || contextWord.length < 3 || contextWord === 'const' || 'let'
WordLen(w) ==
    CASE w = "" -> 0
      [] w = "ab" -> 2
      [] w = "let" -> 3
      [] w = "const" -> 5
      [] w = "fetch" -> 5

RejectedWord(w) == w = "" \/ WordLen(w) < WORD_MIN \/ w = "const" \/ w = "let"

\* deadlines of the pending setTimeout(() => { isHintInProgress = false })
GuardDeadlines == {dispatches[i].guardDeadline : i \in {j \in 1..Len(dispatches) : dispatches[j].pc = "cooldown"}}

RemoveAt(s, i) == SubSeq(s, 1, i - 1) \o SubSeq(s, i + 1, Len(s))

\* ------------------------------------------------------------ StuckDetector
\* A float is kept as the fraction <<numerator, denominator>> in lowest terms.
RECURSIVE GCD(_, _)
GCD(a, b) == IF b = 0 THEN a ELSE GCD(b, a % b)

Frac(n, d) == IF n = 0 THEN <<0, 1>> ELSE <<n \div GCD(n, d), d \div GCD(n, d)>>

Zero == Frac(0, 1)

FracGreater(a, b) == a[1] * b[2] > b[1] * a[2]

\* (avg * (n - 1) + x) / n, with x = xn / xd
RunningMean(avg, n, xn, xd) == Frac(avg[1] * (n - 1) * xd + xn * avg[2], avg[2] * n * xd)

RECURSIVE SumFracs(_)
SumFracs(s) ==
    IF s = <<>> THEN Zero
    ELSE LET rest == SumFracs(Tail(s))
         IN  Frac(s[1][1] * rest[2] + rest[1] * s[1][2], s[1][2] * rest[2])

\* milliseconds as seconds
Seconds(ms) == Frac(ms, 1000)

\* createEmptySignals.  cursor_entropy is kept as the three bin counts its
\* Shannon entropy is computed from; <<0, 0, 0>> stands for the value 0.
EmptySignals ==
    [idle_time_total |-> Zero, idle_time_max |-> Zero, edit_events |-> 0,
     edit_velocity |-> Zero, backspace_ratio |-> Zero, cursor_moves |-> 0,
     cursor_distance |-> 0, cursor_entropy |-> <<0, 0, 0>>, error_events |-> 0,
     unique_errors |-> 0, error_repeat_count |-> 0, error_persistence |-> Zero,
     time_since_last_run |-> Zero, run_attempt_count |-> 0, context_switches |-> 0,
     focus_time_avg |-> Zero, comment_keywords |-> 0, comment_length_avg |-> Zero]

\* The StuckDetector after its constructor has run at time 0: the field
\* initializers, setupEventListeners and resetSignals.  errorCounts is the
\* function from the messages it holds to their counts; disabledNotices
\* counts the 'disabled' messages shown by stopMonitoring,
\* classifierRequests the requests posted to /predict-stuck and
\* classifierOutstanding those of them not yet settled, stuckPopups the
\* 'You might be stuck!' popups not yet answered, hintPosts the requests
\* posted to /get-hint and hintsOutstanding those of them not yet settled,
\* feedbackPosts the requests posted to /log-ml-feedback, reportsLogging the
\* reportStuck calls suspended at their await of logFeedback.
\* ratioSum and ratioCount are history, not fields of the class: the sum and
\* the number of the ratios deletions / totalChanges of the edit batches
\* that had totalChanges > 0; commentSum and commentCount, history as well,
\* are the sum of the lengths and the number of the inserted fragments that
\* held a comment marker.
\* intervals holds the next firing time of every setInterval timer that has
\* not been cleared, the one whose handle monitoringInterval holds last;
\* enabledNotices counts the 'enabled' messages shown by startMonitoring,
\* failureNotices the 'Failed to check stuck status' messages; startTimer is
\* the deadline of the delayed start set by activate, Undefined once it has
\* fired; disposed tells that the extension's subscriptions were disposed.
NewDetector ==
    [monitoring |-> FALSE, monitoringInterval |-> FALSE, signals |-> EmptySignals,
     startTime |-> 0, lastActivityTime |-> 0, maxIdleTime |-> Zero,
     errorMessages |-> {}, errorCounts |-> [m \in {} |-> 0], lastErrorMessage |-> "",
     lastErrorCount |-> 0, cursorPositions |-> <<>>, lastCursorLine |-> 0,
     lastRunTime |-> 0, currentFile |-> "", fileStartTime |-> 0, fileTimes |-> <<>>,
     disabledNotices |-> 0, classifierRequests |-> 0, classifierOutstanding |-> 0,
     stuckPopups |-> 0, hintPosts |-> 0, hintsOutstanding |-> 0, feedbackPosts |-> 0,
     reportsLogging |-> 0, ratioSum |-> Zero, ratioCount |-> 0,
     commentSum |-> 0, commentCount |-> 0, intervals |-> <<>>, enabledNotices |-> 0,
     failureNotices |-> 0, startTimer |-> START_DELAY_MS, disposed |-> FALSE,
     lastAnswerTime |-> Undefined, feedbackHintsOutstanding |-> 0,
     answerPopups |-> 0, plainPopups |-> 0, answerPosts |-> 0, answersOutstanding |-> 0]

NoListeners == [text |-> 0, cursor |-> 0, editor |-> 0]

\* -------------------------------------------------------------------- Init
Init ==
    /\ envDedalusKey \in EnvKeys
    /\ userMode \in {"student", "professor"}
    /\ now = 0
    /\ changeHistory = <<>>
    /\ cursorHistory = <<>>
    /\ fileHistory = <<>>
    /\ lastActivity = NoActivity
    /\ idleTimer = Undefined
    /\ pendingIdle = {}
    /\ textListener = FALSE
    /\ cursorListener = FALSE
    /\ activeEditorListener = FALSE
    /\ registered = NoListeners
    /\ isHintInProgress = FALSE
    /\ dispatches = <<>>
    /\ hintRequests = 0
    /\ categorizeCalls = 0
    /\ analyticsWrites = 0
    /\ lastEval = NoEval
    /\ detector = NewDetector

\* ----------------------------------------------------------- offerSuggestion
\* offerSuggestion without the isHintInProgress early return
OfferSuggestion_NoGuard(contextWord, heuristic) ==
    IF RejectedWord(contextWord)
    THEN UNCHANGED dispatchVars
    ELSE /\ isHintInProgress' = TRUE
         /\ dispatches' = Append(dispatches,
                [pc |-> "hint", heuristic |-> heuristic, started |-> now,
                 hint |-> "none", guardDeadline |-> Undefined])
         /\ hintRequests' = hintRequests + 1
         /\ UNCHANGED <<categorizeCalls, analyticsWrites>>

\* offerSuggestion sending the hint request before it looks at the guard
OfferSuggestion_RequestFirst(contextWord, heuristic) ==
    IF RejectedWord(contextWord)
    THEN UNCHANGED dispatchVars
    ELSE IF isHintInProgress
         THEN /\ hintRequests' = hintRequests + 1
              /\ UNCHANGED <<isHintInProgress, dispatches, categorizeCalls, analyticsWrites>>
         ELSE /\ isHintInProgress' = TRUE
              /\ dispatches' = Append(dispatches,
                     [pc |-> "hint", heuristic |-> heuristic, started |-> now,
                      hint |-> "none", guardDeadline |-> Undefined])
              /\ hintRequests' = hintRequests + 1
              /\ UNCHANGED <<categorizeCalls, analyticsWrites>>

\* offerSuggestion without the early return for a rejected context word
OfferSuggestion_AnyWord(contextWord, heuristic) ==
    IF isHintInProgress
    THEN UNCHANGED dispatchVars
    ELSE /\ isHintInProgress' = TRUE
         /\ dispatches' = Append(dispatches,
                [pc |-> "hint", heuristic |-> heuristic, started |-> now,
                 hint |-> "none", guardDeadline |-> Undefined])
         /\ hintRequests' = hintRequests + 1
         /\ UNCHANGED <<categorizeCalls, analyticsWrites>>

\* The synchronous prefix of offerSuggestion, up to the first await: the two
\* early returns, the guard, and the hint request handed to the provider.
OfferSuggestion(contextWord, heuristic) ==
    IF isHintInProgress \/ RejectedWord(contextWord)
    THEN UNCHANGED dispatchVars
    ELSE /\ isHintInProgress' = TRUE
         /\ dispatches' = Append(dispatches,
                [pc |-> "hint", heuristic |-> heuristic, started |-> now,
                 hint |-> "none", guardDeadline |-> Undefined])
         /\ hintRequests' = hintRequests + 1
         /\ UNCHANGED <<categorizeCalls, analyticsWrites>>

\* ----------------------------------------------------------- checkHeuristics
\* checkHeuristics evaluating the rules of all three channels on every event
CheckHeuristics_AnyRule(heuristic, ch, cu, fh, la, editor, filePath, wordRange) ==
    LET ch1 == Prune(ch, now)
        cu1 == Prune(cu, now)
        fh1 == Prune(fh, now)
        shouldTrigger == \/ ShouldTrigger(heuristic, ch1, cu1, fh1)
                         \/ ShouldTrigger("churn", ch1, cu1, fh1)
                         \/ ShouldTrigger("cursor", ch1, cu1, fh1)
                         \/ ShouldTrigger("file", ch1, cu1, fh1)
        offered == shouldTrigger /\ editor.present /\ wordRange # NoWord
    IN  /\ lastEval' = [heuristic |-> heuristic, shouldTrigger |-> shouldTrigger,
                        offered |-> offered]
        /\ IF offered
           THEN OfferSuggestion(wordRange, heuristic)
           ELSE UNCHANGED dispatchVars
        /\ changeHistory' = IF offered /\ heuristic = "churn" THEN <<>> ELSE ch1
        /\ cursorHistory' = IF offered /\ heuristic = "cursor" THEN <<>> ELSE cu1
        /\ fileHistory' = IF offered /\ heuristic = "file" THEN <<>> ELSE fh1
        /\ lastActivity' = IF offered /\ heuristic = "idle"
                           THEN [timestamp |-> now, line |-> editor.line, filePath |-> filePath]
                           ELSE la

\* checkHeuristics emptying all three windows after any trigger it offers
CheckHeuristics_ClearAll(heuristic, ch, cu, fh, la, editor, filePath, wordRange) ==
    LET ch1 == Prune(ch, now)
        cu1 == Prune(cu, now)
        fh1 == Prune(fh, now)
        shouldTrigger == ShouldTrigger(heuristic, ch1, cu1, fh1)
        offered == shouldTrigger /\ editor.present /\ wordRange # NoWord
    IN  /\ lastEval' = [heuristic |-> heuristic, shouldTrigger |-> shouldTrigger,
                        offered |-> offered]
        /\ IF offered
           THEN OfferSuggestion(wordRange, heuristic)
           ELSE UNCHANGED dispatchVars
        /\ changeHistory' = IF offered THEN <<>> ELSE ch1
        /\ cursorHistory' = IF offered THEN <<>> ELSE cu1
        /\ fileHistory' = IF offered THEN <<>> ELSE fh1
        /\ lastActivity' = IF offered /\ heuristic = "idle"
                           THEN [timestamp |-> now, line |-> editor.line, filePath |-> filePath]
                           ELSE la

\* ch, cu, fh, la: the windows and lastActivity as the calling handler left
\* them; editor: vscode.window.activeTextEditor and its caret line; filePath:
\* the document's path; wordRange: document.getWordRangeAtPosition(position)
\* (NoWord for undefined, else the text of the range).
\* lastEval is the HeuristicResult of this evaluation: shouldTrigger, and
\* whether the evaluation went on to offerSuggestion and the clearing code.
CheckHeuristics(heuristic, ch, cu, fh, la, editor, filePath, wordRange) ==
    LET ch1 == Prune(ch, now)
        cu1 == Prune(cu, now)
        fh1 == Prune(fh, now)
        shouldTrigger == ShouldTrigger(heuristic, ch1, cu1, fh1)
        offered == shouldTrigger /\ editor.present /\ wordRange # NoWord
    IN  /\ lastEval' = [heuristic |-> heuristic, shouldTrigger |-> shouldTrigger,
                        offered |-> offered]
        /\ IF offered
           THEN OfferSuggestion(wordRange, heuristic)
           ELSE UNCHANGED dispatchVars
        /\ changeHistory' = IF offered /\ heuristic = "churn" THEN <<>> ELSE ch1
        /\ cursorHistory' = IF offered /\ heuristic = "cursor" THEN <<>> ELSE cu1
        /\ fileHistory' = IF offered /\ heuristic = "file" THEN <<>> ELSE fh1
        /\ lastActivity' = IF offered /\ heuristic = "idle"
                           THEN [timestamp |-> now, line |-> editor.line, filePath |-> filePath]
                           ELSE la

\* ------------------------------------------------------------- trackActivity
TrackedActivity(line, filePath) == [timestamp |-> now, line |-> line, filePath |-> filePath]

\* trackActivity arming a timer only when none is pending
TrackActivity_KeepDeadline ==
    /\ idleTimer' = IF idleTimer \in pendingIdle THEN idleTimer ELSE now + IDLE_MS
    /\ pendingIdle' = IF idleTimer \in pendingIdle THEN pendingIdle
                       ELSE pendingIdle \cup {now + IDLE_MS}

\* trackActivity arming a new timer without cancelling the pending one
TrackActivity_NoCancel ==
    /\ idleTimer' = now + IDLE_MS
    /\ pendingIdle' = pendingIdle \cup {now + IDLE_MS}

\* trackActivity leaving the watchdog alone while a dispatch is outstanding
TrackActivity_UnlessInFlight ==
    /\ idleTimer' = IF isHintInProgress THEN idleTimer ELSE now + IDLE_MS
    /\ pendingIdle' = IF isHintInProgress THEN pendingIdle
                       ELSE (IF idleTimer # Undefined THEN pendingIdle \ {idleTimer}
                             ELSE pendingIdle) \cup {now + IDLE_MS}

\* clearTimeout(idleTimer) if set, then idleTimer = setTimeout(checkIdleState, 30000)
TrackActivity ==
    /\ idleTimer' = now + IDLE_MS
    /\ pendingIdle' = (IF idleTimer # Undefined THEN pendingIdle \ {idleTimer} ELSE pendingIdle)
                        \cup {now + IDLE_MS}

\* ------------------------------------------------------------- stopListeners
\* stopListeners without the clearTimeout of the idle timer
StopListeners_KeepTimer ==
    /\ UNCHANGED <<idleTimer, pendingIdle>>
    /\ changeHistory' = <<>>
    /\ cursorHistory' = <<>>
    /\ fileHistory' = <<>>
    /\ lastActivity' = NoActivity

StopListeners ==
    /\ idleTimer' = Undefined
    /\ pendingIdle' = IF idleTimer # Undefined THEN pendingIdle \ {idleTimer} ELSE pendingIdle
    /\ changeHistory' = <<>>
    /\ cursorHistory' = <<>>
    /\ fileHistory' = <<>>
    /\ lastActivity' = NoActivity

\* ------------------------------------------------------------------ commands
\* The listeners left with the host when stopListeners has disposed the ones
\* whose handles are held.
Disposed ==
    [text |-> IF textListener THEN registered.text - 1 ELSE registered.text,
     cursor |-> IF cursorListener THEN registered.cursor - 1 ELSE registered.cursor,
     editor |-> IF activeEditorListener THEN registered.editor - 1 ELSE registered.editor]

\* the start command registering its listeners without calling stopListeners
StartCommand_NoStop ==
    /\ CommandsRegistered
    /\ IF userMode # "student"
       THEN UNCHANGED <<windowVars, idleVars, listenerVars>>
       ELSE /\ UNCHANGED <<windowVars, idleVars>>
            /\ textListener' = TRUE
            /\ cursorListener' = TRUE
            /\ activeEditorListener' = TRUE
            /\ registered' = [text |-> registered.text + 1,
                              cursor |-> registered.cursor + 1,
                              editor |-> registered.editor + 1]
    /\ lastEval' = NoEval
    /\ UNCHANGED <<detector, envDedalusKey, userMode, now, dispatchVars>>

StartCommand ==
    /\ CommandsRegistered
    /\ IF userMode # "student"
       THEN UNCHANGED <<windowVars, idleVars, listenerVars>>
       ELSE /\ StopListeners
            /\ textListener' = TRUE
            /\ cursorListener' = TRUE
            /\ activeEditorListener' = TRUE
            /\ registered' = [text |-> Disposed.text + 1,
                              cursor |-> Disposed.cursor + 1,
                              editor |-> Disposed.editor + 1]
    /\ lastEval' = NoEval
    /\ UNCHANGED <<detector, envDedalusKey, userMode, now, dispatchVars>>

StopCommand ==
    /\ CommandsRegistered
    /\ IF userMode # "student"
       THEN UNCHANGED <<windowVars, idleVars, listenerVars>>
       ELSE /\ StopListeners
            /\ textListener' = FALSE
            /\ cursorListener' = FALSE
            /\ activeEditorListener' = FALSE
            /\ registered' = Disposed
    /\ lastEval' = NoEval
    /\ UNCHANGED <<detector, envDedalusKey, userMode, now, dispatchVars>>

\* ------------------------------------------------------------- host events
\* onDidChangeTextDocument without the early return for undo and redo
TextEvent_CountsUndo(event, editor, filePath, wordRange) ==
    /\ textListener
    /\ IF event.webview \/ event.changes = 0
       THEN /\ lastEval' = NoEval
            /\ UNCHANGED <<detector, envDedalusKey, userMode, now, windowVars, idleVars,
                           listenerVars, dispatchVars>>
       ELSE LET ch == Append(changeHistory, [timestamp |-> now, changes |-> event.changes])
            IN  /\ IF editor.present
                   THEN /\ TrackActivity
                        /\ CheckHeuristics("churn", ch, cursorHistory, fileHistory,
                               TrackedActivity(editor.line, filePath), editor, filePath,
                               wordRange)
                   ELSE /\ UNCHANGED <<idleTimer, pendingIdle>>
                        /\ CheckHeuristics("churn", ch, cursorHistory, fileHistory,
                               lastActivity, editor, filePath, wordRange)
                /\ UNCHANGED <<detector, envDedalusKey, userMode, now, listenerVars>>

\* onDidChangeTextDocument: the three early returns (webview document, no
\* content changes, undo or redo), then the recording and the evaluation
TextEvent(event, editor, filePath, wordRange) ==
    /\ textListener
    /\ IF event.webview \/ event.changes = 0 \/ event.reason \in {"undo", "redo"}
       THEN /\ lastEval' = NoEval
            /\ UNCHANGED <<detector, envDedalusKey, userMode, now, windowVars, idleVars,
                           listenerVars, dispatchVars>>
       ELSE LET ch == Append(changeHistory, [timestamp |-> now, changes |-> event.changes])
            IN  /\ IF editor.present
                   THEN /\ TrackActivity
                        /\ CheckHeuristics("churn", ch, cursorHistory, fileHistory,
                               TrackedActivity(editor.line, filePath), editor, filePath,
                               wordRange)
                   ELSE /\ UNCHANGED <<idleTimer, pendingIdle>>
                        /\ CheckHeuristics("churn", ch, cursorHistory, fileHistory,
                               lastActivity, editor, filePath, wordRange)
                /\ UNCHANGED <<detector, envDedalusKey, userMode, now, listenerVars>>

\* onDidChangeTextEditorSelection
CursorEvent(line, filePath, editor, wordRange) ==
    /\ cursorListener
    /\ LET cu == Append(cursorHistory, [timestamp |-> now, line |-> line])
       IN  /\ TrackActivity
           /\ CheckHeuristics("cursor", changeHistory, cu, fileHistory,
                  TrackedActivity(line, filePath), editor, filePath, wordRange)
    /\ UNCHANGED <<detector, envDedalusKey, userMode, now, listenerVars>>

\* onDidChangeActiveTextEditor
ActiveEditorEvent(editor, webview, filePath, wordRange) ==
    /\ activeEditorListener
    /\ IF ~editor.present \/ webview
       THEN UNCHANGED vars
       ELSE LET fh == Append(fileHistory, [timestamp |-> now, filePath |-> filePath])
            IN  /\ TrackActivity
                /\ CheckHeuristics("file", changeHistory, cursorHistory, fh,
                       TrackedActivity(editor.line, filePath), editor, filePath, wordRange)
                /\ UNCHANGED <<detector, envDedalusKey, userMode, now, listenerVars>>

\* -------------------------------------------------------------- idle timer
\* checkIdleState comparing the file with the snapshot but not the caret line
IdleTimerFires_FileOnly(editor, filePath, wordRange) ==
    /\ now \in pendingIdle
    /\ IF /\ editor.present
          /\ ~isHintInProgress
          /\ filePath = lastActivity.filePath
          /\ now - lastActivity.timestamp >= IDLE_MS
          /\ wordRange # NoWord
       THEN /\ CheckHeuristics("idle", changeHistory, cursorHistory, fileHistory,
                   lastActivity, editor, filePath, wordRange)
            /\ pendingIdle' = (pendingIdle \ {now}) \
                   (IF idleTimer # Undefined THEN {idleTimer} ELSE {})
            /\ UNCHANGED idleTimer
       ELSE /\ pendingIdle' = pendingIdle \ {now}
            /\ lastEval' = NoEval
            /\ UNCHANGED <<windowVars, lastActivity, idleTimer, dispatchVars>>
    /\ UNCHANGED <<detector, envDedalusKey, userMode, now, listenerVars>>

\* The setTimeout callback of trackActivity: checkIdleState.
IdleTimerFires(editor, filePath, wordRange) ==
    /\ now \in pendingIdle
    /\ IF /\ editor.present
          /\ ~isHintInProgress
          /\ editor.line = lastActivity.line
          /\ filePath = lastActivity.filePath
          /\ now - lastActivity.timestamp >= IDLE_MS
          /\ wordRange # NoWord
       THEN /\ CheckHeuristics("idle", changeHistory, cursorHistory, fileHistory,
                   lastActivity, editor, filePath, wordRange)
            /\ pendingIdle' = (pendingIdle \ {now}) \
                   (IF idleTimer # Undefined THEN {idleTimer} ELSE {})
            /\ UNCHANGED idleTimer
       ELSE /\ pendingIdle' = pendingIdle \ {now}
            /\ lastEval' = NoEval
            /\ UNCHANGED <<windowVars, lastActivity, idleTimer, dispatchVars>>
    /\ UNCHANGED <<detector, envDedalusKey, userMode, now, listenerVars>>

\* ------------------------------------------------- offerSuggestion, resumed
\* A collaborator that never answers leaves the dispatch suspended at its
\* await for ever: outcome "never", pc "hung".
\* await dedalusClient.chat.create(...) settles; the catch block records a
\* failure, and the finally block calls categorizeKeyword.
HintResponse(i, outcome) ==
    /\ i \in 1..Len(dispatches)
    /\ dispatches[i].pc = "hint"
    /\ IF outcome = "never"
       THEN /\ dispatches' = [dispatches EXCEPT ![i].pc = "hung"]
            /\ UNCHANGED categorizeCalls
       ELSE /\ dispatches' = [dispatches EXCEPT ![i].pc = "categorize", ![i].hint = outcome]
            /\ categorizeCalls' = categorizeCalls + 1
    /\ lastEval' = NoEval
    /\ UNCHANGED <<detector, envDedalusKey, userMode, now, windowVars, idleVars, listenerVars, isHintInProgress,
                   hintRequests, analyticsWrites>>

\* the finally block starting the clearing timer before the analytics write
CategorizeResponse_TimerFirst(i, outcome) ==
    /\ i \in 1..Len(dispatches)
    /\ dispatches[i].pc = "categorize"
    /\ IF outcome = "never"
       THEN /\ dispatches' = [dispatches EXCEPT ![i].pc = "hung"]
            /\ UNCHANGED analyticsWrites
       ELSE /\ dispatches' = [dispatches EXCEPT ![i].pc = "cooldown",
                                                ![i].guardDeadline = now + GUARD_MS]
            /\ analyticsWrites' = analyticsWrites + 1
    /\ lastEval' = NoEval
    /\ UNCHANGED <<detector, envDedalusKey, userMode, now, windowVars, idleVars, listenerVars, isHintInProgress,
                   hintRequests, categorizeCalls>>

\* await categorizeKeyword(...) returns (its own catch turns a failure into the
\* fallback category); addDoc is called.
CategorizeResponse(i, outcome) ==
    /\ i \in 1..Len(dispatches)
    /\ dispatches[i].pc = "categorize"
    /\ IF outcome = "never"
       THEN /\ dispatches' = [dispatches EXCEPT ![i].pc = "hung"]
            /\ UNCHANGED analyticsWrites
       ELSE /\ dispatches' = [dispatches EXCEPT ![i].pc = "analytics"]
            /\ analyticsWrites' = analyticsWrites + 1
    /\ lastEval' = NoEval
    /\ UNCHANGED <<detector, envDedalusKey, userMode, now, windowVars, idleVars, listenerVars, isHintInProgress,
                   hintRequests, categorizeCalls>>

\* await addDoc(...) settles: on success the 10 s timer is started; a
\* rejection leaves the finally block before the setTimeout line and rejects
\* the promise of offerSuggestion.
AnalyticsResponse(i, outcome) ==
    /\ i \in 1..Len(dispatches)
    /\ dispatches[i].pc = "analytics"
    /\ dispatches' = CASE outcome = "ok" ->
                             [dispatches EXCEPT ![i].pc = "cooldown",
                                                ![i].guardDeadline = now + GUARD_MS]
                        [] outcome = "fail" -> [dispatches EXCEPT ![i].pc = "rejected"]
                        [] outcome = "never" -> [dispatches EXCEPT ![i].pc = "hung"]
    /\ lastEval' = NoEval
    /\ UNCHANGED <<detector, envDedalusKey, userMode, now, windowVars, idleVars, listenerVars, isHintInProgress,
                   hintRequests, categorizeCalls, analyticsWrites>>

\* setTimeout(() => { isHintInProgress = false; }, 10000) fires
GuardTimerFires(i) ==
    /\ i \in 1..Len(dispatches)
    /\ dispatches[i].pc = "cooldown"
    /\ dispatches[i].guardDeadline = now
    /\ isHintInProgress' = FALSE
    /\ dispatches' = RemoveAt(dispatches, i)
    /\ lastEval' = NoEval
    /\ UNCHANGED <<detector, envDedalusKey, userMode, now, windowVars, idleVars, listenerVars,
                   hintRequests, categorizeCalls, analyticsWrites>>

\* --------------------------------------------------------------------- time
\* Date.now() advances by d; no pending timer is overrun.
Tick(d) ==
    /\ \A deadline \in pendingIdle \cup GuardDeadlines : now + d <= deadline
    /\ now' = now + d
    /\ lastEval' = NoEval
    /\ UNCHANGED <<detector, envDedalusKey, userMode, windowVars, idleVars, listenerVars, dispatchVars>>

\* --------------------------------------------------- StuckDetector handlers
\* The six listeners are registered by the constructor and disposed only by
\* dispose: they run whether monitoring is on or off.
engineVars == <<envDedalusKey, userMode, now, windowVars, idleVars, listenerVars, dispatchVars, lastEval>>

\* resetSignals, called by the constructor only
ResetSignals(d) ==
    [d EXCEPT !.signals = EmptySignals, !.startTime = now, !.lastActivityTime = now,
              !.maxIdleTime = Zero, !.errorMessages = {},
              !.errorCounts = [m \in {} |-> 0], !.cursorPositions = <<>>,
              !.fileTimes = <<>>, !.ratioSum = Zero, !.ratioCount = 0,
              !.commentSum = 0, !.commentCount = 0]

UpdateActivity(d) ==
    LET idleTime == Seconds(now - d.lastActivityTime)
    IN  [d EXCEPT !.maxIdleTime = IF FracGreater(idleTime, d.maxIdleTime)
                                  THEN idleTime ELSE d.maxIdleTime,
                  !.lastActivityTime = now]

stuckKeywords == {"todo", "fix", "fixme", "bug", "help", "stuck", "broken", "issue"}

\* text.includes(keyword), for a text whose vocabulary words are `words`:
\* 'fix' is the one keyword that is a substring of another, 'fixme'.
Includes(words, keyword) == keyword \in words \/ (keyword = "fix" /\ "fixme" \in words)

\* The keywords for which the loop of lines 298-302 increments the counter.
MatchedKeywords(change) ==
    IF change.marker THEN {k \in stuckKeywords : Includes(change.words, k)} ELSE {}

\* a + b
FracSum(a, b) == Frac(a[1] * b[2] + b[1] * a[2], a[2] * b[2])

\* One pass of the loop of onTextChange over a content change.  A change is
\* [length: change.text.length, rangeLength, marker: the text contains //, #
\* or /*, words: the vocabulary words the lower-cased text contains]; acc
\* holds deletions, insertions and the two comment signals.
ApplyChange(acc, change, n) ==
    IF change.length = 0
    THEN [acc EXCEPT !.deletions = @ + change.rangeLength]
    ELSE [acc EXCEPT !.insertions = @ + change.length,
                     !.comment_keywords = @ + Cardinality(MatchedKeywords(change)),
                     !.comment_length_avg = IF change.marker
                                            THEN RunningMean(@, n, change.length, 1)
                                            ELSE @,
                     !.commentSum = IF change.marker THEN @ + change.length ELSE @,
                     !.commentCount = IF change.marker THEN @ + 1 ELSE @]

RECURSIVE ApplyChanges(_, _, _)
ApplyChanges(acc, changes, n) ==
    IF changes = <<>> THEN acc
    ELSE ApplyChanges(ApplyChange(acc, Head(changes), n), Tail(changes), n)

\* onDidChangeTextDocument
OnTextChange(changes) ==
    LET d1 == UpdateActivity(detector)
        n == d1.signals.edit_events + 1
        acc == ApplyChanges([deletions |-> 0, insertions |-> 0,
                             comment_keywords |-> d1.signals.comment_keywords,
                             comment_length_avg |-> d1.signals.comment_length_avg,
                             commentSum |-> d1.commentSum,
                             commentCount |-> d1.commentCount],
                            changes, n)
        totalChanges == acc.deletions + acc.insertions
    IN  /\ detector' = [d1 EXCEPT
               !.signals.edit_events = n,
               !.signals.comment_keywords = acc.comment_keywords,
               !.signals.comment_length_avg = acc.comment_length_avg,
               !.signals.backspace_ratio =
                   IF totalChanges > 0
                   THEN RunningMean(@, n, acc.deletions, totalChanges)
                   ELSE @,
               !.ratioSum = IF totalChanges > 0
                            THEN FracSum(@, Frac(acc.deletions, totalChanges)) ELSE @,
               !.ratioCount = IF totalChanges > 0 THEN @ + 1 ELSE @,
               !.commentSum = acc.commentSum,
               !.commentCount = acc.commentCount]
        /\ UNCHANGED engineVars

\* PushBounded evicting only once the ring holds more than cap entries
PushBounded_EvictLate(ring, x, cap) ==
    IF Len(ring) > cap THEN Tail(Append(ring, x)) ELSE Append(ring, x)

\* PushBounded starting the ring afresh from the new entry when it is full
PushBounded_Restart(ring, x, cap) ==
    IF Len(ring) + 1 > cap THEN <<x>> ELSE Append(ring, x)

\* PushBounded dropping the newest entry, not the oldest, of a full ring
PushBounded_DropNewest(ring, x, cap) ==
    IF Len(ring) + 1 > cap THEN ring ELSE Append(ring, x)

\* cursorPositions.push(line); if (length > 50) shift()
PushBounded(ring, x, cap) ==
    IF Len(ring) + 1 > cap THEN Tail(Append(ring, x)) ELSE Append(ring, x)

\* onDidChangeTextEditorSelection; line is selections[0].active.line, or
\* Undefined when the event carries no selection
OnSelectionChange(line) ==
    LET d1 == UpdateActivity(detector)
    IN  /\ detector' =
              IF line = Undefined
              THEN [d1 EXCEPT !.signals.cursor_moves = @ + 1]
              ELSE [d1 EXCEPT !.signals.cursor_moves = @ + 1,
                              !.signals.cursor_distance = @ + Abs(line - d1.lastCursorLine),
                              !.cursorPositions = PushBounded(@, line, CURSOR_RING),
                              !.lastCursorLine = line]
        /\ UNCHANGED engineVars

\* onDidChangeWindowState
OnWindowStateChange(focused) ==
    /\ detector' = IF ~focused
                   THEN [detector EXCEPT !.signals.context_switches = @ + 1]
                   ELSE detector
    /\ UNCHANGED engineVars

\* TrackErrors counting the messages without entering them in errorMessages
RECURSIVE TrackErrors_CountsOnly(_, _)
TrackErrors_CountsOnly(d, errors) ==
    IF errors = <<>> THEN d
    ELSE LET msg == Head(errors)
             count == IF msg \in DOMAIN d.errorCounts THEN d.errorCounts[msg] ELSE 0
             d1 == [d EXCEPT
                      !.errorCounts = [m \in DOMAIN @ \cup {msg} |->
                                          IF m = msg THEN count + 1 ELSE @[m]],
                      !.lastErrorCount = IF msg = d.lastErrorMessage THEN @ + 1 ELSE 1,
                      !.lastErrorMessage = msg]
         IN  TrackErrors_CountsOnly(d1, Tail(errors))

\* The inner loop of onDiagnosticsChange over the errors of one uri.
RECURSIVE TrackErrors(_, _)
TrackErrors(d, errors) ==
    IF errors = <<>> THEN d
    ELSE LET msg == Head(errors)
             count == IF msg \in DOMAIN d.errorCounts THEN d.errorCounts[msg] ELSE 0
             d1 == [d EXCEPT
                      !.errorMessages = @ \cup {msg},
                      !.errorCounts = [m \in DOMAIN @ \cup {msg} |->
                                          IF m = msg THEN count + 1 ELSE @[m]],
                      !.lastErrorCount = IF msg = d.lastErrorMessage THEN @ + 1 ELSE 1,
                      !.lastErrorMessage = msg]
         IN  TrackErrors(d1, Tail(errors))

\* The outer loop: uris is the sequence, one entry per uri of the event, of
\* the messages of the diagnostics of severity Error of that uri.
RECURSIVE TrackUris(_, _)
TrackUris(d, uris) ==
    IF uris = <<>> THEN d
    ELSE TrackUris(TrackErrors([d EXCEPT !.signals.error_events = Len(Head(uris))],
                               Head(uris)),
                   Tail(uris))

\* onDidChangeDiagnostics
OnDiagnosticsChange(uris) ==
    /\ detector' = TrackUris(detector, uris)
    /\ UNCHANGED engineVars

\* onDidStartDebugSession
OnDebugStart ==
    /\ detector' = [UpdateActivity(detector) EXCEPT
                       !.signals.run_attempt_count = @ + 1,
                       !.lastRunTime = now,
                       !.signals.time_since_last_run = Zero]
    /\ UNCHANGED engineVars

\* onDidChangeActiveTextEditor; newFile is "" when there is no editor
OnActiveEditorChange(newFile) ==
    /\ detector' =
          IF newFile = "" THEN detector
          ELSE LET d1 == IF newFile # detector.currentFile /\ detector.currentFile # ""
                         THEN [detector EXCEPT
                                 !.signals.context_switches = @ + 1,
                                 !.fileTimes = PushBounded(@, Seconds(now - detector.fileStartTime),
                                                           FOCUS_RING)]
                         ELSE detector
               IN  [d1 EXCEPT !.currentFile = newFile, !.fileStartTime = now]
    /\ UNCHANGED engineVars

\* The three bins of calculateEntropy: deltas of at most 5 lines, of 6 to 20
\* lines, of more than 20 lines.
EntropyBins(positions) ==
    LET diff(i) == Abs(positions[i] - positions[i - 1])
        idx == 2..Len(positions)
    IN  <<Cardinality({i \in idx : diff(i) <= 5}),
          Cardinality({i \in idx : diff(i) > 5 /\ diff(i) <= 20}),
          Cardinality({i \in idx : diff(i) > 20})>>

\* calculateSignals dividing by the elapsed time without testing it
\* The sign of the entropy that the last loop of calculateEntropy computes
\* from the bins: 0 for the value 0, 1 for a positive value.  Each non-empty
\* bin subtracts p * log2(p) from the sum.
EntropySign(bins) ==
    LET total == bins[1] + bins[2] + bins[3]
        \* sign of -p * log2(p) for p = count / total, 0 < count <= total:
        \* log2(1) = 0, and log2(p) < 0 for p < 1
        TermSign(count) == IF count = total THEN 0 ELSE 1
    IN  IF \E b \in 1..3 : bins[b] > 0 /\ TermSign(bins[b]) = 1 THEN 1 ELSE 0

\* calculateSignals dividing by the elapsed time without testing it
CalculateSignals_NoElapsedGuard(d) ==
    LET timeElapsed == now - d.startTime
        sig == d.signals
    IN  [sig EXCEPT
           !.idle_time_total = Seconds(now - d.lastActivityTime),
           !.idle_time_max = d.maxIdleTime,
           !.edit_velocity = Frac(sig.edit_events * 1000, timeElapsed),
           !.cursor_entropy = IF Len(d.cursorPositions) > 1
                              THEN EntropyBins(d.cursorPositions) ELSE @,
           !.unique_errors = Cardinality(d.errorMessages),
           !.error_repeat_count =
               Cardinality({m \in DOMAIN d.errorCounts : d.errorCounts[m] > 1}),
           !.error_persistence = IF sig.error_events > 0 /\ d.lastErrorCount > 0
                                 THEN Frac(d.lastErrorCount, sig.error_events) ELSE @,
           !.time_since_last_run = Seconds(now - d.lastRunTime),
           !.focus_time_avg =
               IF Len(d.fileTimes) > 0
               THEN LET sum == SumFracs(d.fileTimes)
                    IN  Frac(sum[1], sum[2] * Len(d.fileTimes))
               ELSE @]

CalculateSignals(d) ==
    LET timeElapsed == now - d.startTime
        sig == d.signals
    IN  [sig EXCEPT
           !.idle_time_total = Seconds(now - d.lastActivityTime),
           !.idle_time_max = d.maxIdleTime,
           !.edit_velocity = IF timeElapsed > 0
                             THEN Frac(sig.edit_events * 1000, timeElapsed) ELSE @,
           !.cursor_entropy = IF Len(d.cursorPositions) > 1
                              THEN EntropyBins(d.cursorPositions) ELSE @,
           !.unique_errors = Cardinality(d.errorMessages),
           !.error_repeat_count =
               Cardinality({m \in DOMAIN d.errorCounts : d.errorCounts[m] > 1}),
           !.error_persistence = IF sig.error_events > 0 /\ d.lastErrorCount > 0
                                 THEN Frac(d.lastErrorCount, sig.error_events) ELSE @,
           !.time_since_last_run = Seconds(now - d.lastRunTime),
           !.focus_time_avg =
               IF Len(d.fileTimes) > 0
               THEN LET sum == SumFracs(d.fileTimes)
                    IN  Frac(sum[1], sum[2] * Len(d.fileTimes))
               ELSE @]

\* checkIfStuck up to its await: the signals are recomputed and posted to
\* the classifier.
CheckIfStuckCall(d) ==
    [d EXCEPT !.signals = CalculateSignals(d),
              !.classifierRequests = @ + 1,
              !.classifierOutstanding = @ + 1]

\* the stuckDetector.checkStatus command
CheckIfStuck ==
    /\ detector' = CheckIfStuckCall(detector)
    /\ UNCHANGED engineVars

\* getHint up to its await: without an active editor it returns after a
\* warning, otherwise the context is posted to /get-hint.
GetHint(d, activeEditor) ==
    IF activeEditor
    THEN [d EXCEPT !.hintPosts = @ + 1, !.hintsOutstanding = @ + 1]
    ELSE d

\* the stuckDetector.getHint command (also the status bar item)
GetHintCommand(activeEditor) ==
    /\ detector' = GetHint(detector, activeEditor)
    /\ UNCHANGED engineVars

\* await axios.post(/get-hint) settles: the hint is shown, or the catch block
\* shows the failure.
GetHintSettles ==
    /\ detector.hintsOutstanding > 0
    /\ detector' = [detector EXCEPT !.hintsOutstanding = @ - 1]
    /\ UNCHANGED engineVars

\* logFeedback up to its await
LogFeedback(d) == [d EXCEPT !.feedbackPosts = @ + 1]

\* ClassifierSettles turning automatic monitoring off when the request failed
ClassifierSettles_FailureStops(outcome) ==
    /\ detector.classifierOutstanding > 0
    /\ detector' = [detector EXCEPT
           !.classifierOutstanding = @ - 1,
           !.stuckPopups = IF outcome = "stuck" THEN @ + 1 ELSE @,
           !.failureNotices = IF outcome = "fail" THEN @ + 1 ELSE @,
           !.monitoring = IF outcome = "fail" THEN FALSE ELSE @,
           !.monitoringInterval = IF outcome = "fail" THEN FALSE ELSE @,
           !.intervals = IF outcome = "fail" /\ detector.monitoringInterval
                         THEN SubSeq(@, 1, Len(@) - 1) ELSE @]
    /\ UNCHANGED engineVars

\* await axios.post(/predict-stuck) settles: is_stuck opens the popup, any
\* other answer only shows a message, and a failure is caught and shown as
\* the message 'Failed to check stuck status'.
ClassifierSettles(outcome) ==
    /\ detector.classifierOutstanding > 0
    /\ detector' = [detector EXCEPT !.classifierOutstanding = @ - 1,
                                    !.stuckPopups = IF outcome = "stuck" THEN @ + 1 ELSE @,
                                    !.failureNotices = IF outcome = "fail" THEN @ + 1 ELSE @]
    /\ UNCHANGED engineVars

\* the then-callback of the popup: the user's selection
PopupChoice(selection, activeEditor) ==
    /\ detector.stuckPopups > 0
    /\ LET d1 == [detector EXCEPT !.stuckPopups = @ - 1]
       IN  detector' = CASE selection = "Get Hint" -> LogFeedback(GetHint(d1, activeEditor))
                         [] selection = "I'm Not Stuck" -> LogFeedback(d1)
                         [] OTHER -> d1
    /\ UNCHANGED engineVars

\* reportStuck up to its first await: logFeedback is posted
ReportStuck ==
    /\ detector' = [LogFeedback(detector) EXCEPT !.reportsLogging = @ + 1]
    /\ UNCHANGED engineVars

\* await this.logFeedback(...) returns in reportStuck (logFeedback catches its
\* own failure): getHint is called.
ReportStuckResumes(activeEditor) ==
    /\ detector.reportsLogging > 0
    /\ detector' = GetHint([detector EXCEPT !.reportsLogging = @ - 1], activeEditor)
    /\ UNCHANGED engineVars

\* ------------------------------------------- hints with a direct answer
\* The detector revision of src/unnamed/part_001.  lastAnswerTime is 0 after
\* construction, more than 5 minutes before any Date.now(): Undefined here.
\* canGiveAnswer = (now - this.lastAnswerTime) > answerCooldown
CanGiveAnswer(d) ==
    d.lastAnswerTime = Undefined \/ now - d.lastAnswerTime > ANSWER_COOLDOWN_MS

\* getHintAndShowFeedback, called by checkIfStuck when the classifier answers
\* is_stuck, up to its await: the hint request is posted.
GetHintAndShowFeedback(activeEditor) ==
    /\ detector' = IF activeEditor
                   THEN [detector EXCEPT !.feedbackHintsOutstanding = @ + 1]
                   ELSE detector
    /\ UNCHANGED engineVars

\* await axios.post(/get-hint) settles: the hint popup is shown, with the
\* 'Give Answer' button when canGiveAnswer holds at this moment (answerPopups)
\* and without it otherwise (plainPopups); a failure shows an error.
FeedbackHintSettles(outcome) ==
    /\ detector.feedbackHintsOutstanding > 0
    /\ detector' = [detector EXCEPT
           !.feedbackHintsOutstanding = @ - 1,
           !.answerPopups = IF outcome = "ok" /\ CanGiveAnswer(detector) THEN @ + 1 ELSE @,
           !.plainPopups = IF outcome = "ok" /\ ~CanGiveAnswer(detector) THEN @ + 1 ELSE @]
    /\ UNCHANGED engineVars

\* getDirectAnswer up to its await: the answer request is posted
GetDirectAnswer(d) == [d EXCEPT !.answerPosts = @ + 1, !.answersOutstanding = @ + 1]

\* The user answers a hint popup (hasAnswerButton: one shown with the 'Give
\* Answer' button): 'Give Answer' stamps lastAnswerTime and calls
\* getDirectAnswer, the two feedback buttons post the feedback, a dismissed
\* popup does nothing.
HintPopupChoice(hasAnswerButton, selection) ==
    /\ IF hasAnswerButton THEN detector.answerPopups > 0 ELSE detector.plainPopups > 0
    /\ selection = "Give Answer" => hasAnswerButton
    /\ LET d1 == IF hasAnswerButton
                 THEN [detector EXCEPT !.answerPopups = @ - 1]
                 ELSE [detector EXCEPT !.plainPopups = @ - 1]
       IN  detector' =
             CASE selection = "Give Answer" ->
                      GetDirectAnswer([d1 EXCEPT !.lastAnswerTime = now])
               [] selection \in {"Helpful", "Not Helpful"} -> LogFeedback(d1)
               [] OTHER -> d1
    /\ UNCHANGED engineVars

\* await axios.post(/get-answer) settles: the answer or the failure is shown
DirectAnswerSettles ==
    /\ detector.answersOutstanding > 0
    /\ detector' = [detector EXCEPT !.answersOutstanding = @ - 1]
    /\ UNCHANGED engineVars

\* monitoringInterval = setInterval(() => checkIfStuck(), interval)
StartMonitoring(d) ==
    [d EXCEPT !.monitoring = TRUE, !.monitoringInterval = TRUE,
              !.intervals = Append(@, now + POLL_MS),
              !.enabledNotices = @ + 1]

\* if (monitoringInterval) { clearInterval(monitoringInterval); ... }
StopMonitoring(d) ==
    [d EXCEPT !.monitoring = FALSE, !.monitoringInterval = FALSE,
              !.intervals = IF d.monitoringInterval THEN SubSeq(@, 1, Len(@) - 1) ELSE @,
              !.disabledNotices = @ + 1]

\* toggleMonitoring, by the command or by the delayed start of activate
ToggleMonitoring ==
    /\ detector' = IF detector.monitoring THEN StopMonitoring(detector)
                   ELSE StartMonitoring(detector)
    /\ UNCHANGED engineVars

\* the stuckDetector.toggleMonitoring command, registered until the
\* subscriptions are disposed
ToggleMonitoringCommand ==
    /\ ~detector.disposed
    /\ ToggleMonitoring

\* setTimeout(() => stuckDetector.toggleMonitoring(), 2000) of activate fires
DelayedStart ==
    /\ detector.startTimer = now
    /\ detector' = [(IF detector.monitoring THEN StopMonitoring(detector)
                     ELSE StartMonitoring(detector)) EXCEPT !.startTimer = Undefined]
    /\ UNCHANGED engineVars

\* context.subscriptions are disposed: the commands, and the StuckDetector
\* by its dispose
Dispose ==
    /\ ~detector.disposed
    /\ detector' = [StopMonitoring(detector) EXCEPT !.disposed = TRUE]
    /\ UNCHANGED engineVars

\* The callback of the i-th setInterval timer runs: checkIfStuck, up to its
\* await; the timer fires again POLL_MS later.
PollTimerFires(i) ==
    /\ i \in 1..Len(detector.intervals)
    /\ detector.intervals[i] = now
    /\ detector' = [CheckIfStuckCall(detector) EXCEPT !.intervals[i] = now + POLL_MS]
    /\ UNCHANGED engineVars

\* ------------------------------------------------------------ specifications
\* Number of samples of a window that the next evaluation will retain.
Retained(h) == Len(Prune(h, now))

\* The engine fed with edit events only, in one document, for ChurnMaxTime ms.
NextChurn ==
    \/ StartCommand
    \/ StopCommand
    \/ \E event \in TextChanges, editor \in OneEditor, wordRange \in WordRanges :
         /\ Retained(changeHistory) < MaxEdits
         /\ TextEvent(event, editor, "a.ts", wordRange)
    \/ \E d \in Deltas : now + d <= ChurnMaxTime /\ Tick(d)

SpecChurn == Init /\ [][NextChurn]_vars

\* The engine fed with cursor events only, for CursorMaxTime ms, up to the
\* first dispatch.  The word at the caret is read only by an evaluation that
\* triggers, which takes more than CURSOR_MIN samples: below that the events
\* come with no word.
CursorWords == IF Retained(cursorHistory) >= CURSOR_MIN THEN {NoWord, "fetch"} ELSE {NoWord}

NextCursor ==
    \/ StartCommand
    \/ StopCommand
    \/ \E line \in Lines, wordRange \in CursorWords :
         /\ ~isHintInProgress
         /\ Retained(cursorHistory) < MaxCursor
         /\ CursorEvent(line, "a.ts", [present |-> TRUE, line |-> line], wordRange)
    \/ \E d \in WindowDeltas : now + d <= CursorMaxTime /\ Tick(d)

SpecCursor == Init /\ [][NextCursor]_vars

\* The engine fed with file-switch events only, for FileMaxTime ms.
NextFile ==
    \/ StartCommand
    \/ StopCommand
    \/ \E editor \in OneEditor, webview \in BOOLEAN, filePath \in Files,
          wordRange \in {NoWord, "fetch"} :
         /\ Retained(fileHistory) < MaxFiles
         /\ ActiveEditorEvent(editor, webview, filePath, wordRange)
    \/ \E d \in Deltas : now + d <= FileMaxTime /\ Tick(d)

SpecFile == Init /\ [][NextFile]_vars

\* The user's next cursor line and next file in SpecDispatch: the caret
\* alternates between two lines far apart, the files are visited in a cycle.
Last(h) == h[Len(h)]

JumpLine == IF cursorHistory # <<>> /\ Last(cursorHistory).line = 0 THEN 11 ELSE 0

CycleFile ==
    IF fileHistory = <<>> THEN "a.ts"
    ELSE CASE Last(fileHistory).filePath = "a.ts" -> "b.ts"
           [] Last(fileHistory).filePath = "b.ts" -> "c.ts"
           [] Last(fileHistory).filePath = "c.ts" -> "a.ts"

\* The whole engine with its collaborators, for DispatchMaxTime ms.  The user
\* works in bursts: an event of one channel arrives only when the other two
\* windows hold no sample younger than the horizon, and the clock advances in
\* steps of LongDeltas.
NextDispatch ==
    \/ StartCommand
    \/ StopCommand
    \/ \E editor \in OneEditor, wordRange \in {NoWord, "ab", "fetch"} :
         /\ Retained(changeHistory) < MaxEdits
         /\ Retained(cursorHistory) = 0 /\ Retained(fileHistory) = 0
         /\ TextEvent(PlainEdit, editor, "a.ts", wordRange)
    \/ \E editor \in OneEditor, wordRange \in {NoWord, "fetch"} :
         /\ Retained(cursorHistory) < MaxCursor
         /\ Retained(changeHistory) = 0 /\ Retained(fileHistory) = 0
         /\ CursorEvent(JumpLine, "a.ts", editor, wordRange)
    \/ \E editor \in OneEditor, wordRange \in {NoWord, "fetch"} :
         /\ Retained(fileHistory) < MaxFiles
         /\ Retained(changeHistory) = 0 /\ Retained(cursorHistory) = 0
         /\ ActiveEditorEvent(editor, FALSE, CycleFile, wordRange)
    \/ \E editor \in FarEditors, filePath \in Files, wordRange \in {NoWord, "ab", "fetch"} :
         IdleTimerFires(editor, filePath, wordRange)
    \/ \E i \in 1..Len(dispatches), outcome \in Outcomes : HintResponse(i, outcome)
    \/ \E i \in 1..Len(dispatches), outcome \in Outcomes : CategorizeResponse(i, outcome)
    \/ \E i \in 1..Len(dispatches), outcome \in Outcomes : AnalyticsResponse(i, outcome)
    \/ \E i \in 1..Len(dispatches) : GuardTimerFires(i)
    \/ \E d \in LongDeltas : now + d <= DispatchMaxTime /\ Tick(d)

SpecDispatch == Init /\ [][NextDispatch]_vars

\* The engine fed with events of all three channels whose caret is on any
\* word, rejected context words included, for DispatchMaxTime ms.  The user
\* works in bursts as in SpecDispatch; no collaborator answers, so the first
\* dispatch stays outstanding.
NextReject ==
    \/ StartCommand
    \/ StopCommand
    \/ \E editor \in OneEditor, wordRange \in WordRanges :
         /\ Retained(changeHistory) < MaxEdits
         /\ Retained(cursorHistory) = 0 /\ Retained(fileHistory) = 0
         /\ TextEvent(PlainEdit, editor, "a.ts", wordRange)
    \/ \E editor \in OneEditor, wordRange \in WordRanges :
         /\ Retained(cursorHistory) < MaxCursor
         /\ Retained(changeHistory) = 0 /\ Retained(fileHistory) = 0
         /\ CursorEvent(JumpLine, "a.ts", editor, wordRange)
    \/ \E editor \in OneEditor, wordRange \in WordRanges :
         /\ Retained(fileHistory) < MaxFiles
         /\ Retained(changeHistory) = 0 /\ Retained(cursorHistory) = 0
         /\ ActiveEditorEvent(editor, FALSE, CycleFile, wordRange)
    \/ \E editor \in FarEditors, filePath \in Files, wordRange \in WordRanges :
         IdleTimerFires(editor, filePath, wordRange)
    \/ \E d \in LongDeltas : now + d <= DispatchMaxTime /\ Tick(d)

SpecReject == Init /\ [][NextReject]_vars

\* The engine fed with events of all three channels at once.  The user works
\* for WINDOW_MS, pauses, and is back when the idle deadline of the activity at
\* time 0 is due; at most CrossMaxSamples samples are inside the horizon at
\* any time.  Nothing answers a dispatch in this specification.
CrossTicks == IF now < WINDOW_MS THEN Deltas
              ELSE IF now = WINDOW_MS THEN {IDLE_MS - WINDOW_MS} ELSE {}

CrossRoom ==
    Retained(changeHistory) + Retained(cursorHistory) + Retained(fileHistory)
        < CrossMaxSamples

NextCross ==
    \/ StartCommand
    \/ StopCommand
    \/ \E editor \in OneEditor, wordRange \in {NoWord, "fetch"} :
         /\ CrossRoom
         /\ TextEvent(PlainEdit, editor, "a.ts", wordRange)
    \/ \E wordRange \in {NoWord, "fetch"} :
         /\ CrossRoom
         /\ CursorEvent(JumpLine, "a.ts", [present |-> TRUE, line |-> JumpLine], wordRange)
    \/ \E wordRange \in {NoWord, "fetch"} :
         /\ CrossRoom
         /\ ActiveEditorEvent([present |-> TRUE, line |-> 0], FALSE, CycleFile, wordRange)
    \/ \E editor \in FarEditors, filePath \in Files, wordRange \in {NoWord, "fetch"} :
         IdleTimerFires(editor, filePath, wordRange)
    \/ \E d \in CrossTicks : now + d <= CrossMaxTime /\ Tick(d)

SpecCross == Init /\ [][NextCross]_vars

\* The idle watchdog over IdleMaxTime ms.  The user is active at time 0 and,
\* with the watchdog still armed, again at IdleRearmAt; the clock moves from
\* one of these instants or pending idle deadlines to the next.  Nothing
\* answers a dispatch in this specification.
IdleInstants == {t \in {IdleRearmAt, IdleMaxTime} \cup pendingIdle : t > now /\ t <= IdleMaxTime}

IdleTicks == {t - now : t \in {u \in IdleInstants : \A v \in IdleInstants : u <= v}}

IdleUserActive == now = 0 \/ (now = IdleRearmAt /\ pendingIdle # {})

NextIdle ==
    \/ StartCommand
    \/ StopCommand
    \/ \E editor \in OneEditor, wordRange \in {NoWord, "fetch"} :
         /\ IdleUserActive
         /\ Retained(changeHistory) < MaxEdits
         /\ TextEvent(PlainEdit, editor, "a.ts", wordRange)
    \/ \E line \in FarLines :
         /\ IdleUserActive
         /\ Retained(cursorHistory) < IdleMaxCursor
         /\ CursorEvent(line, "a.ts", [present |-> TRUE, line |-> line], "fetch")
    \/ \E editor \in FarEditors, filePath \in {"a.ts", "b.ts"},
          wordRange \in {NoWord, "ab", "fetch"} :
         IdleTimerFires(editor, filePath, wordRange)
    \/ \E d \in IdleTicks : Tick(d)

SpecIdle == Init /\ [][NextIdle]_vars

\* The StuckDetector fed with at most DetectorMaxEvents host events,
\* commands and toggles over DetectorMaxTime ms; the heuristic engine is not
\* started.
Inserted(length, marker, words) ==
    [length |-> length, rangeLength |-> 0, marker |-> marker, words |-> words]

Deleted(rangeLength) ==
    [length |-> 0, rangeLength |-> rangeLength, marker |-> FALSE, words |-> {}]

DetectorChanges ==
    {<<>>,
     <<Inserted(4, FALSE, {})>>,
     <<Deleted(2)>>,
     <<Inserted(7, TRUE, {"todo"})>>}

DetectorDiagnostics == {<<>>, <<<<>>>>, <<<<"E1">>>>, <<<<"E1", "E2">>>>}

RECURSIVE SumCounts(_)
SumCounts(f) ==
    IF DOMAIN f = {} THEN 0
    ELSE LET m == CHOOSE x \in DOMAIN f : TRUE
         IN  f[m] + SumCounts([x \in DOMAIN f \ {m} |-> f[x]])

DetectorEvents ==
    detector.signals.edit_events + detector.signals.cursor_moves
        + detector.signals.run_attempt_count + detector.signals.context_switches
        + SumCounts(detector.errorCounts) + detector.classifierRequests
        + detector.disabledNotices

DetectorRoom == DetectorEvents < DetectorMaxEvents

NextDetector ==
    \/ \E changes \in DetectorChanges : DetectorRoom /\ OnTextChange(changes)
    \/ \E line \in FarLines \cup {Undefined} : DetectorRoom /\ OnSelectionChange(line)
    \/ \E focused \in BOOLEAN : DetectorRoom /\ OnWindowStateChange(focused)
    \/ \E uris \in DetectorDiagnostics : DetectorRoom /\ OnDiagnosticsChange(uris)
    \/ DetectorRoom /\ OnDebugStart
    \/ \E newFile \in {"", "a.ts", "b.ts"} : DetectorRoom /\ OnActiveEditorChange(newFile)
    \/ DetectorRoom /\ CheckIfStuck
    \/ DetectorRoom /\ ToggleMonitoring
    \/ \E d \in LongDeltas : now + d <= DetectorMaxTime /\ Tick(d)

\* The StuckDetector is an extension of its own: the heuristic engine's
\* activation is held fixed in the specifications of the StuckDetector.
DetectorInit == Init /\ envDedalusKey = "dd-live-key" /\ userMode = "student"

SpecDetector == DetectorInit /\ [][NextDetector]_vars

\* The StuckDetector fed with at most EditMaxBatches edit batches, with
\* calculateSignals in between: an empty batch, insertions, deletions, a
\* batch of both, and inserted comment fragments with no, one and two words
\* of the vocabulary ('// ok', '// todo', '// fixme', '// todo: bug'), a
\* vocabulary word outside a comment ('todo') and two fragments in a batch.
EditBatches ==
    DetectorChanges \cup
    {<<Deleted(2), Inserted(4, FALSE, {})>>,
     <<Inserted(5, TRUE, {})>>,
     <<Inserted(8, TRUE, {"fixme"})>>,
     <<Inserted(12, TRUE, {"todo", "bug"})>>,
     <<Inserted(4, FALSE, {"todo"})>>,
     <<Inserted(7, TRUE, {"todo"}), Inserted(6, TRUE, {"bug"})>>}

NextEdits ==
    \/ \E changes \in EditBatches :
         /\ detector.signals.edit_events < EditMaxBatches
         /\ OnTextChange(changes)
    \/ detector.classifierRequests < 1 /\ CheckIfStuck
    \/ \E d \in LongDeltas : now + d <= DetectorMaxTime /\ Tick(d)

SpecEdits == DetectorInit /\ [][NextEdits]_vars

\* The StuckDetector while the user goes back and forth between two files,
\* FocusMaxSwitches times, staying LongDeltas ms on a file now and then, with
\* one calculateSignals at any point.
OtherFile == IF detector.currentFile = "a.ts" THEN "b.ts" ELSE "a.ts"

NextFocus ==
    \/ /\ detector.signals.context_switches < FocusMaxSwitches
       /\ OnActiveEditorChange(OtherFile)
    \/ detector.classifierRequests < 1 /\ CheckIfStuck
    \/ \E d \in LongDeltas : now + d <= FocusMaxTime /\ Tick(d)

SpecFocus == DetectorInit /\ [][NextFocus]_vars

\* The StuckDetector through RingMaxMoves cursor moves.  The caret visits
\* lines of FarLines for its first three positions and then stays on its
\* line; other events (an edit, a diagnostics batch, a debug run, a file
\* switch), at most RingMaxOthers of them, arrive while fewer than two
\* positions are recorded; calculateSignals runs at most RingMaxChecks times,
\* before a fourth position is recorded.
RingLines == IF Len(detector.cursorPositions) < 3 THEN FarLines ELSE {detector.lastCursorLine}

RingOthers ==
    detector.signals.edit_events + detector.signals.run_attempt_count
        + SumCounts(detector.errorCounts) + detector.signals.context_switches
        + (IF detector.currentFile = "" THEN 0 ELSE 1)

RingOtherRoom == Len(detector.cursorPositions) < 2 /\ RingOthers < RingMaxOthers

NextRing ==
    \/ \E line \in RingLines :
         /\ detector.signals.cursor_moves < RingMaxMoves
         /\ OnSelectionChange(line)
    \/ RingOtherRoom /\ OnTextChange(<<Deleted(2), Inserted(4, FALSE, {})>>)
    \/ RingOtherRoom /\ OnDiagnosticsChange(<<<<"E1", "E2">>>>)
    \/ RingOtherRoom /\ OnDebugStart
    \/ RingOtherRoom /\ OnActiveEditorChange(OtherFile)
    \/ /\ detector.classifierRequests < RingMaxChecks
       /\ Len(detector.cursorPositions) <= 3
       /\ CheckIfStuck
    \/ \E d \in LongDeltas : now + d <= DetectorMaxTime /\ Tick(d)

SpecRing == DetectorInit /\ [][NextRing]_vars

\* The cursor buffer of the StuckDetector through BufferMaxMoves cursor
\* moves, with one calculateSignals at any point.  The caret visits lines of
\* BufferLines for its first four positions and then stays on its line.
BufferLines == {0, 11, 40}

NextBuffer ==
    \/ \E line \in (IF Len(detector.cursorPositions) < 4 THEN BufferLines
                     ELSE {detector.lastCursorLine}) :
         /\ detector.signals.cursor_moves < BufferMaxMoves
         /\ OnSelectionChange(line)
    \/ detector.classifierRequests < 1 /\ CheckIfStuck
    \/ \E d \in LongDeltas : now + d <= DetectorMaxTime /\ Tick(d)

SpecBuffer == DetectorInit /\ [][NextBuffer]_vars

\* The hint path of the StuckDetector: commands, classifier answers, popup
\* choices and reports, until HintMaxPosts requests have been posted.
ClassifierOutcomes == {"stuck", "fine", "fail"}

PopupSelections == {"Get Hint", "I'm Not Stuck", "Ignore"}

HintRoom ==
    detector.classifierRequests + detector.hintPosts + detector.feedbackPosts < HintMaxPosts

NextHint ==
    \/ HintRoom /\ CheckIfStuck
    \/ \E activeEditor \in BOOLEAN : HintRoom /\ GetHintCommand(activeEditor)
    \/ GetHintSettles
    \/ \E outcome \in ClassifierOutcomes : ClassifierSettles(outcome)
    \/ \E selection \in PopupSelections, activeEditor \in BOOLEAN :
         PopupChoice(selection, activeEditor)
    \/ HintRoom /\ ReportStuck
    \/ \E activeEditor \in BOOLEAN : ReportStuckResumes(activeEditor)
    \/ \E d \in LongDeltas : now + d <= DetectorMaxTime /\ Tick(d)

SpecHint == DetectorInit /\ [][NextHint]_vars

\* Hints with a direct-answer button over AnswerMaxTime ms: at most
\* AnswerMaxHints hint requests, whose popups the user answers or leaves open.
AnswerSelections == {"Give Answer", "Helpful", "Not Helpful", "Dismiss"}

\* The clock moves from one instant of AnswerInstants to a later one: half a
\* cooldown, a whole one, and one whole cooldown and 1 ms after the start.
AnswerInstants ==
    {ANSWER_COOLDOWN_MS \div 2, ANSWER_COOLDOWN_MS, ANSWER_COOLDOWN_MS + 1, AnswerMaxTime}

AnswerDeltas == {t - now : t \in {u \in AnswerInstants : u > now}}

AnswerRoom ==
    detector.feedbackHintsOutstanding + detector.answerPopups + detector.plainPopups
        + detector.answerPosts + detector.feedbackPosts < AnswerMaxHints

NextAnswer ==
    \/ \E activeEditor \in BOOLEAN : AnswerRoom /\ GetHintAndShowFeedback(activeEditor)
    \/ \E outcome \in {"ok", "fail"} : FeedbackHintSettles(outcome)
    \/ \E hasAnswerButton \in BOOLEAN, selection \in AnswerSelections :
         HintPopupChoice(hasAnswerButton, selection)
    \/ DirectAnswerSettles
    \/ \E d \in AnswerDeltas : now + d <= AnswerMaxTime /\ Tick(d)

SpecAnswer == DetectorInit /\ [][NextAnswer]_vars

\* The monitoring switch of the StuckDetector over MonitorMaxTime ms: the
\* delayed start, at most MonitorMaxToggles toggle commands, the polling
\* timer, the classifier's answers, and the disposal of the extension.  The
\* clock moves from one timer deadline or instant of MonitorInstants to the
\* next; a timer that is due fires before the clock moves on.
MonitorInstants == {1000, MonitorMaxTime}

DetectorDeadlines ==
    {detector.intervals[i] : i \in 1..Len(detector.intervals)}
        \cup (IF detector.startTimer = Undefined THEN {} ELSE {detector.startTimer})

MonitorNext == {t \in MonitorInstants \cup DetectorDeadlines : t > now /\ t <= MonitorMaxTime}

MonitorTicks ==
    IF now \in DetectorDeadlines THEN {}
    ELSE {t - now : t \in {u \in MonitorNext : \A v \in MonitorNext : u <= v}}

NextMonitor ==
    \/ /\ detector.enabledNotices + detector.disabledNotices < MonitorMaxToggles
       /\ ToggleMonitoringCommand
    \/ DelayedStart
    \/ Dispose
    \/ \E i \in 1..Len(detector.intervals) : PollTimerFires(i)
    \/ \E outcome \in ClassifierOutcomes : ClassifierSettles(outcome)
    \/ \E d \in MonitorTicks : Tick(d)

SpecMonitor == DetectorInit /\ [][NextMonitor]_vars

\* ------------------------------------------------------------------- claims
\* Indices of the samples of window h that lie inside the 5 s horizon at time t.
InHorizon(h, t) == {i \in 1..Len(h) : t - h[i].timestamp < 5000}

Far(a, b) == a - b > 5 \/ b - a > 5

\* C1: at most one hint dispatch is in flight at any time: a dispatch stays in
\* flight from its start until its guard has been cleared, and no second one
\* starts in between.
C1_SingleDispatchInFlight == Len(dispatches) <= 1

\* A file-switch trigger with a usable word has just been evaluated while a
\* dispatch started earlier is still awaiting its categorization.
C1_Witness ==
    /\ lastEval.heuristic = "file" /\ lastEval.offered
    /\ Len(dispatches) = 1
    /\ dispatches[1].pc = "categorize"
    /\ dispatches[1].started < now

\* C2: a qualifying trigger evaluated while hintInFlight is true changes
\* nothing of the dispatch state (no hint request, no analytics write, no new
\* dispatch), an idle expiry while hintInFlight is true (the due timer leaves
\* pendingIdle, idleTimer is kept) does not even evaluate, and hint requests are issued only by the evaluation of a trigger
\* made while the guard is false, so a dropped trigger is never replayed.
C2_TriggerInFlightDropped ==
    [][/\ (isHintInProgress /\ lastEval'.shouldTrigger) =>
            /\ hintRequests' = hintRequests
            /\ analyticsWrites' = analyticsWrites
            /\ dispatches' = dispatches
       /\ (isHintInProgress /\ now \in pendingIdle /\ now \notin pendingIdle'
              /\ idleTimer' = idleTimer) =>
            /\ lastEval' = NoEval
            /\ hintRequests' = hintRequests
            /\ analyticsWrites' = analyticsWrites
            /\ dispatches' = dispatches
       /\ hintRequests' # hintRequests =>
            /\ ~isHintInProgress
            /\ lastEval'.shouldTrigger
            /\ hintRequests' = hintRequests + 1]_vars

\* A cursor-jump trigger with a usable word has just been dropped: the only
\* hint request so far is the one of the dispatch started earlier.
C2_Witness ==
    /\ lastEval.heuristic = "cursor" /\ lastEval.offered
    /\ isHintInProgress
    /\ Len(dispatches) = 1
    /\ dispatches[1].started < now
    /\ hintRequests = 1
    /\ analyticsWrites = 0

\* C3: a hung collaborator never blocks detection for ever.  Stated on states:
\* whenever the guard is set, some dispatch can still clear it (it awaits an
\* answer that will come, or its 10 s timer is pending).
C3_GuardAlwaysClearable ==
    isHintInProgress =>
        \E i \in 1..Len(dispatches) :
            dispatches[i].pc \in {"hint", "categorize", "analytics", "cooldown"}

\* C4: the guard is cleared when the dispatch completes or 10 s after its
\* start, whichever comes first: it is never set once the dispatch has
\* completed, nor more than 10 s after the dispatch started.
C4_GuardClearedWithin10s ==
    isHintInProgress =>
        \A i \in 1..Len(dispatches) :
            /\ dispatches[i].pc # "cooldown"
            /\ now - dispatches[i].started <= 10000

\* C5: after a failed hint request the guard returns to false.  Stated on
\* states: a dispatch whose hint request failed is never left without the
\* means to clear the guard.
C5_FailedHintClearsGuard ==
    \A i \in 1..Len(dispatches) :
        dispatches[i].hint = "fail" => dispatches[i].pc \notin {"hung", "rejected"}

\* C6: a failed analytics write is discarded: it never makes the dispatch end
\* in a rejection that skips the clearing of the guard.
C6_AnalyticsFailureDiscarded ==
    \A i \in 1..Len(dispatches) : dispatches[i].pc # "rejected"

\* C7: an edit event triggers churn if and only if more than 5 edits (the new
\* one included) lie inside the 5 s horizon at the event's time.
C7_ChurnIffMoreThanFive ==
    [][lastEval'.heuristic = "churn" =>
         (lastEval'.shouldTrigger <=>
            Cardinality(InHorizon(changeHistory, now')) + 1 > 5)]_vars

\* Churn has just triggered on exactly 6 retained edits of two different
\* ages (no word at the caret, so the window still shows them).
C7_Witness ==
    /\ lastEval.heuristic = "churn" /\ lastEval.shouldTrigger
    /\ Len(changeHistory) = 6
    /\ changeHistory[1].timestamp = 2500
    /\ changeHistory[6].timestamp = 5000

\* C8: a cursor event triggers cursor-jump if and only if more than 8 samples
\* (the new one included) lie inside the 5 s horizon and more than 3
\* consecutive pairs of them are more than 5 lines apart.
C8_CursorIffSamplesAndJumps ==
    [][lastEval'.heuristic = "cursor" =>
         LET keep == InHorizon(cursorHistory, now')
             pairs == {i \in keep : i + 1 \in keep /\
                          Far(cursorHistory[i].line, cursorHistory[i + 1].line)}
             lastPair == IF Len(cursorHistory) \in keep /\
                            Far(cursorHistory[Len(cursorHistory)].line, lastActivity'.line)
                         THEN 1 ELSE 0
         IN  lastEval'.shouldTrigger <=>
                (Cardinality(keep) + 1 > 8 /\ Cardinality(pairs) + lastPair > 3)]_vars

\* Cursor-jump has just triggered on exactly 9 samples with exactly 4 jumps,
\* one pair of samples being exactly 5 lines apart (no word at the caret, so
\* the window still shows them).
C8_Witness ==
    /\ lastEval.heuristic = "cursor" /\ lastEval.shouldTrigger
    /\ Len(cursorHistory) = 9
    /\ Cardinality({i \in 1..8 : Far(cursorHistory[i].line, cursorHistory[i + 1].line)}) = 4
    /\ \E i \in 1..8 : cursorHistory[i].line = 0 /\ cursorHistory[i + 1].line = 5

\* C9: a file-switch event triggers file-switch if and only if more than 4
\* file-switch events (the new one included) lie inside the 5 s horizon and
\* they touch more than 2 distinct files.
C9_FileIffEventsAndDistinct ==
    [][lastEval'.heuristic = "file" =>
         LET keep == InHorizon(fileHistory, now')
             touched == {fileHistory[i].filePath : i \in keep} \cup {lastActivity'.filePath}
         IN  lastEval'.shouldTrigger <=>
                (Cardinality(keep) + 1 > 4 /\ Cardinality(touched) > 2)]_vars

\* File-switch has just triggered at t = 5 s on exactly 5 retained events over
\* exactly 3 files, the oldest 2.5 s old (no word at the caret, so the window
\* still shows them).
C9_Witness ==
    /\ lastEval.heuristic = "file" /\ lastEval.shouldTrigger
    /\ Len(fileHistory) = 5
    /\ Cardinality({fileHistory[i].filePath : i \in 1..5}) = 3
    /\ fileHistory[1].timestamp = 2500
    /\ now = 5000

\* C10: the edit window is empty immediately after the evaluation in which
\* churn triggered.
C10_ChurnTriggerEmptiesWindow ==
    (lastEval.heuristic = "churn" /\ lastEval.shouldTrigger) => changeHistory = <<>>

\* The samples of window h younger than the horizon at time t, in order.
StillInside(h, t) == SelectSeq(h, LAMBDA c : c.timestamp > t - 5000)

\* C11: an evaluation that triggers leaves in every window other than the
\* triggering channel's exactly the samples that were inside the horizon
\* before it, and an idle trigger leaves that in all three windows.
C11_OtherWindowsKept ==
    [][lastEval'.shouldTrigger =>
         /\ lastEval'.heuristic # "churn" =>
               changeHistory' = StillInside(changeHistory, now')
         /\ lastEval'.heuristic # "cursor" =>
               cursorHistory' = StillInside(cursorHistory, now')
         /\ lastEval'.heuristic # "file" =>
               fileHistory' = StillInside(fileHistory, now')]_vars

\* Churn has just triggered and been offered at t = 5 s: the edit window is
\* empty and the cursor window still holds its sample of t = 2.5 s.
C11_Witness ==
    /\ lastEval.heuristic = "churn" /\ lastEval.offered
    /\ now = 5000
    /\ changeHistory = <<>>
    /\ Len(cursorHistory) = 1 /\ cursorHistory[1].timestamp = 2500

\* The step is an evaluation that changed window h beyond dropping its old
\* samples: the event of that channel (its sample was appended, and the
\* window possibly emptied afterwards).
ChannelChanged(h, hNext) == lastEval'.heuristic # "none" /\ hNext # StillInside(h, now')

\* C12: the event of a channel evaluates the rule of that channel and no
\* other: an edit event triggers exactly when the churn rule is met, a
\* cursor event exactly when the cursor-jump rule is met, a file-switch event
\* exactly when the file-switch rule is met, whatever the other windows
\* hold, and a dispatch it starts carries that channel's heuristic.
C12_OnlyOwnRuleEvaluated ==
    [][/\ ChannelChanged(changeHistory, changeHistory') =>
            /\ lastEval'.heuristic = "churn"
            /\ lastEval'.shouldTrigger <=>
                   Cardinality(InHorizon(changeHistory, now')) + 1 > 5
       /\ ChannelChanged(cursorHistory, cursorHistory') =>
            /\ lastEval'.heuristic = "cursor"
            /\ lastEval'.shouldTrigger <=>
                   LET keep == InHorizon(cursorHistory, now')
                       pairs == {i \in keep : i + 1 \in keep /\
                                    Far(cursorHistory[i].line, cursorHistory[i + 1].line)}
                       lastPair == IF Len(cursorHistory) \in keep /\
                                      Far(cursorHistory[Len(cursorHistory)].line,
                                          lastActivity'.line)
                                   THEN 1 ELSE 0
                   IN  Cardinality(keep) + 1 > 8 /\ Cardinality(pairs) + lastPair > 3
       /\ ChannelChanged(fileHistory, fileHistory') =>
            /\ lastEval'.heuristic = "file"
            /\ lastEval'.shouldTrigger <=>
                   LET keep == InHorizon(fileHistory, now')
                       touched == {fileHistory[i].filePath : i \in keep}
                                     \cup {lastActivity'.filePath}
                   IN  Cardinality(keep) + 1 > 4 /\ Cardinality(touched) > 2
       /\ Len(dispatches') > Len(dispatches) =>
            dispatches'[Len(dispatches')].heuristic = lastEval'.heuristic]_vars

\* An edit event has just been evaluated and did not trigger, while the file
\* window holds 5 switches over 3 files, enough for the file-switch rule.
C12_Witness ==
    /\ lastEval.heuristic = "churn" /\ ~lastEval.shouldTrigger
    /\ Len(changeHistory) >= 1 /\ Last(changeHistory).timestamp = now
    /\ Len(fileHistory) > 4
    /\ Cardinality({fileHistory[i].filePath : i \in 1..Len(fileHistory)}) > 2
    /\ dispatches = <<>>

\* The samples of window h with a timestamp in the closed interval [t - 5000, t].
ClosedInside(h, t) == SelectSeq(h, LAMBDA c : c.timestamp >= t - 5000 /\ c.timestamp <= t)

\* Window hNext is what an evaluation at time now' leaves of window h when it
\* saw the samples kept and, for the event's own channel, the new sample.
SeenWindow(kept, hNext) ==
    \/ hNext = kept
    \/ /\ Len(hNext) = Len(kept) + 1
       /\ SubSeq(hNext, 1, Len(kept)) = kept
       /\ hNext[Len(hNext)].timestamp = now'

Emptied(channel, hNext) ==
    lastEval'.offered /\ lastEval'.heuristic = channel /\ hNext = <<>>

\* C13 as stated: every evaluation sees in each window exactly the samples
\* with a timestamp in [now - 5000, now] (a window it does not empty shows
\* them afterwards), and the churn rule is decided on that many edits.
C13_SeesClosedInterval ==
    [][lastEval'.heuristic # "none" =>
         /\ \/ Emptied("churn", changeHistory')
            \/ SeenWindow(ClosedInside(changeHistory, now'), changeHistory')
         /\ \/ Emptied("cursor", cursorHistory')
            \/ SeenWindow(ClosedInside(cursorHistory, now'), cursorHistory')
         /\ \/ Emptied("file", fileHistory')
            \/ SeenWindow(ClosedInside(fileHistory, now'), fileHistory')
         /\ lastEval'.heuristic = "churn" =>
               (lastEval'.shouldTrigger <=>
                  Len(ClosedInside(changeHistory, now')) + 1 > 5)]_vars

\* C13, amended: every evaluation first drops from all three windows the
\* samples 5000 ms old or older, and sees in each window exactly the
\* samples with a timestamp in the half-open interval (now - 5000, now]; the
\* churn rule is decided on that many edits.
C13_SeesHalfOpenInterval ==
    [][lastEval'.heuristic # "none" =>
         /\ \/ Emptied("churn", changeHistory')
            \/ SeenWindow(StillInside(changeHistory, now'), changeHistory')
         /\ \/ Emptied("cursor", cursorHistory')
            \/ SeenWindow(StillInside(cursorHistory, now'), cursorHistory')
         /\ \/ Emptied("file", fileHistory')
            \/ SeenWindow(StillInside(fileHistory, now'), fileHistory')
         /\ lastEval'.heuristic = "churn" =>
               (lastEval'.shouldTrigger <=>
                  Len(StillInside(changeHistory, now')) + 1 > 5)]_vars

\* An edit has just been evaluated at t = 5 s and did not trigger: the edit
\* window shows four edits of t = 2.5 s and the new one, the file window a
\* switch of t = 2.5 s, and no sample of t = 0 is left in any window.
C13_Witness ==
    /\ lastEval.heuristic = "churn" /\ ~lastEval.shouldTrigger
    /\ now = 5000
    /\ Len(changeHistory) = 5
    /\ changeHistory[1].timestamp = 2500 /\ changeHistory[5].timestamp = 5000
    /\ Len(fileHistory) = 1 /\ fileHistory[1].timestamp = 2500
    /\ cursorHistory = <<>>
    /\ hintRequests = 0

\* C14: at most one idle deadline is pending at any time, and a pending
\* deadline is the one of the handle held, 30 s after the most recent tracked
\* activity.
C14_OneIdleDeadline ==
    /\ Cardinality(pendingIdle) <= 1
    /\ \A deadline \in pendingIdle :
          /\ deadline = idleTimer
          /\ deadline = lastActivity.timestamp + 30000

\* A tracked activity at t = 10 s has re-armed the watchdog that the edit
\* starting the dispatch at t = 0 had armed for t = 30 s: the only pending
\* deadline is t = 40 s.
C14_Witness ==
    /\ now = 10000
    /\ Len(dispatches) = 1 /\ dispatches[1].started = 0
    /\ lastActivity.timestamp = 10000
    /\ pendingIdle = {40000}

\* C15: the idle heuristic is evaluated only when exactly 30 s have passed
\* since the most recent tracked activity, and every tracked activity leaves
\* one pending deadline, 30 s after itself: a deadline armed by an earlier
\* activity never fires.
C15_IdleAfterLatestActivity ==
    [][/\ lastEval'.heuristic = "idle" => now' = lastActivity.timestamp + 30000
       /\ (lastEval'.heuristic \in {"churn", "cursor", "file"}
              /\ lastActivity'.timestamp = now' /\ lastActivity'.line >= 0) =>
            pendingIdle' = {now' + 30000}]_vars

\* The watchdog armed at t = 0 and re-armed at t = 29.9 s has just fired the
\* idle heuristic at t = 59.9 s, which started the first dispatch.
C15_Witness ==
    /\ lastEval.heuristic = "idle" /\ lastEval.offered
    /\ now = 59900
    /\ lastActivity.timestamp = 59900
    /\ pendingIdle = {}
    /\ hintRequests = 1
    /\ Len(dispatches) = 1 /\ dispatches[1].heuristic = "idle"

\* The caret of the active editor is where lastActivity recorded it, 30 s ago
\* or more.
SameAsSnapshot(editor, filePath) ==
    /\ editor.present
    /\ editor.line = lastActivity.line
    /\ filePath = lastActivity.filePath
    /\ now - lastActivity.timestamp >= 30000

\* C16 as stated: when the idle deadline expires, the idle heuristic is
\* evaluated if and only if the caret line and file equal the snapshot and
\* at least 30 s have passed since it, and no deadline is pending afterwards.
C16_FiresIffSameAsSnapshot ==
    [][\A editor \in FarEditors, filePath \in Files, wordRange \in WordRanges :
         IdleTimerFires(editor, filePath, wordRange) =>
            /\ lastEval'.heuristic = "idle" <=> SameAsSnapshot(editor, filePath)
            /\ pendingIdle' = {}]_vars

\* C16, amended: when the idle deadline expires, the idle heuristic is
\* evaluated if and only if the caret line and file equal the snapshot, at
\* least 30 s have passed since it, no hint dispatch is in flight and the
\* caret is on a word; whether it is or not, no deadline is pending
\* afterwards and the handle held is unchanged.
C16_FiresIffSameAndFreeAndWord ==
    [][\A editor \in FarEditors, filePath \in Files, wordRange \in WordRanges :
         IdleTimerFires(editor, filePath, wordRange) =>
            /\ lastEval'.heuristic = "idle" <=>
                  /\ SameAsSnapshot(editor, filePath)
                  /\ ~isHintInProgress
                  /\ wordRange # NoWord
            /\ lastEval'.heuristic = "idle" =>
                  lastActivity' = [timestamp |-> now, line |-> editor.line,
                                   filePath |-> filePath]
            /\ lastEval'.heuristic # "idle" =>
                  lastActivity' = lastActivity /\ hintRequests' = hintRequests
            /\ pendingIdle' = {}
            /\ idleTimer' = idleTimer]_vars

\* The deadline of t = 59.9 s has just expired without an idle evaluation:
\* the snapshot of t = 29.9 s and the handle are as they were, nothing is
\* pending, and no dispatch was ever started.
C16_Witness ==
    /\ now = 59900
    /\ lastEval = NoEval
    /\ lastActivity.timestamp = 29900
    /\ idleTimer = 59900
    /\ pendingIdle = {}
    /\ textListener
    /\ hintRequests = 0

Stopped == ~textListener /\ ~cursorListener /\ ~activeEditorListener

\* C17: the step that stops the engine removes all three listeners, cancels
\* the pending idle deadline and empties the three windows and the activity
\* snapshot; while the engine is stopped no deadline is pending and no step
\* evaluates a heuristic or requests a hint.
C17_StopCancelsAndSilences ==
    [][/\ (textListener /\ ~textListener') =>
            /\ ~cursorListener' /\ ~activeEditorListener'
            /\ pendingIdle' = {} /\ idleTimer' = -1
            /\ changeHistory' = <<>> /\ cursorHistory' = <<>> /\ fileHistory' = <<>>
            /\ lastActivity' = [timestamp |-> 0, line |-> -1, filePath |-> ""]
       /\ Stopped =>
            /\ pendingIdle = {}
            /\ lastEval'.heuristic = "none"
            /\ hintRequests' = hintRequests]_vars

\* The engine is stopped at t = 10 s: the deadline that the edit starting the
\* dispatch at t = 0 had armed for t = 30 s is gone, and so are the snapshot
\* and the windows.
C17_Witness ==
    /\ Stopped
    /\ now = 10000
    /\ Len(dispatches) = 1 /\ dispatches[1].started = 0
    /\ pendingIdle = {} /\ idleTimer = -1
    /\ lastActivity.line = -1
    /\ changeHistory = <<>>

\* C18: right after the step that starts a stopped engine the whole session
\* state is empty: the windows, the snapshot, the idle deadline and the
\* dispatch guard, whatever the dispatch state was at the stop.
C18_RestartFromCleanSlate ==
    [][(Stopped /\ textListener') =>
         /\ changeHistory' = <<>> /\ cursorHistory' = <<>> /\ fileHistory' = <<>>
         /\ lastActivity' = [timestamp |-> 0, line |-> -1, filePath |-> ""]
         /\ pendingIdle' = {} /\ idleTimer' = -1
         /\ isHintInProgress' = FALSE]_vars

\* C19: right after the step that turns monitoring on again after it had been
\* turned off, every signal has its zero default and the error registry and
\* the focus ring are empty.
C19_RestartResetsSignals ==
    [][(detector.disabledNotices > 0 /\ ~detector.monitoring /\ detector'.monitoring) =>
         /\ detector'.signals = EmptySignals
         /\ detector'.errorMessages = {}
         /\ DOMAIN detector'.errorCounts = {}
         /\ detector'.fileTimes = <<>>]_vars

\* C20: an evaluation whose trigger condition is met with no active editor
\* or no word at the caret starts no dispatch and leaves the guard as it
\* was, and has emptied the triggering channel's window.
C20_DroppedTriggerClearsWindow ==
    [][(lastEval'.shouldTrigger /\ ~lastEval'.offered
          /\ lastEval'.heuristic \in {"churn", "cursor", "file"}) =>
         /\ isHintInProgress' = isHintInProgress
         /\ dispatches' = dispatches
         /\ hintRequests' = hintRequests
         /\ lastEval'.heuristic = "churn" => changeHistory' = <<>>
         /\ lastEval'.heuristic = "cursor" => cursorHistory' = <<>>
         /\ lastEval'.heuristic = "file" => fileHistory' = <<>>]_vars


\* C21: credentials that are missing or a placeholder at activation disable
\* only the hint path: in a student session the start command can still be
\* run, and running it registers the three listeners that feed the windows.
C21_StartAvailableWithoutCredentials ==
    (userMode = "student" /\ KeyMissing) =>
        ENABLED (StartCommand /\ textListener' /\ cursorListener' /\ activeEditorListener')


\* The watchdog has just been rearmed: the handle held is a pending deadline
\* IDLE_MS from now.
Rearmed == idleTimer' = now + IDLE_MS /\ idleTimer' \in pendingIdle'

\* The event handled in this step is the newest sample of window hNext, which
\* has grown by it over what the horizon retains of h.
Ingested(h, hNext) ==
    /\ Len(hNext) = Len(Prune(h, now)) + 1
    /\ hNext[Len(hNext)].timestamp = now

\* C22: while a dispatch is outstanding (isHintInProgress is true) every
\* edit, cursor and file-switch event is handled at once and as usual: its
\* sample is appended to its window (which is emptied only by the reset that
\* follows a trigger of that window), the idle watchdog is rearmed by every
\* cursor and file-switch event and by every edit made with an editor
\* active, and the handler neither waits for nor changes the dispatch.
C22_EventsIngestedInFlight ==
    [][isHintInProgress =>
         /\ lastEval'.heuristic = "churn" =>
               /\ lastEval'.offered \/ Ingested(changeHistory, changeHistory')
               /\ lastEval'.offered => changeHistory' = <<>>
               /\ dispatches' = dispatches /\ isHintInProgress'
         /\ \A wordRange \in {NoWord, "fetch"} :
               TextEvent(PlainEdit, [present |-> TRUE, line |-> 0], "a.ts", wordRange)
                   => Rearmed
         /\ lastEval'.heuristic = "cursor" =>
               /\ lastEval'.offered \/ Ingested(cursorHistory, cursorHistory')
               /\ lastEval'.offered => cursorHistory' = <<>>
               /\ Rearmed
               /\ dispatches' = dispatches /\ isHintInProgress'
         /\ lastEval'.heuristic = "file" =>
               /\ lastEval'.offered \/ Ingested(fileHistory, fileHistory')
               /\ lastEval'.offered => fileHistory' = <<>>
               /\ Rearmed
               /\ dispatches' = dispatches /\ isHintInProgress'
      ]_vars

\* With a dispatch outstanding since time 0, events made later have been
\* taken into all three windows, and the watchdog was rearmed by the last.
C22_Witness ==
    /\ isHintInProgress
    /\ Len(dispatches) = 1 /\ dispatches[1].started = 0
    /\ now > 0
    /\ changeHistory # <<>> /\ changeHistory[Len(changeHistory)].timestamp = now
    /\ cursorHistory # <<>> /\ cursorHistory[Len(cursorHistory)].timestamp = now
    /\ fileHistory # <<>> /\ fileHistory[Len(fileHistory)].timestamp = now
    /\ idleTimer = now + IDLE_MS /\ idleTimer \in pendingIdle


\* C23: in the StuckDetector at most one request to the hint provider is
\* outstanding at any time, whichever of the getHint command, the popup's
\* 'Get Hint' choice and reportStuck asked for it.
C23_OneHintOutstanding == detector.hintsOutstanding <= 1


\* A quotient that was computed with a non-zero divisor and is not negative.
FiniteNonNegative(q) == q[2] > 0 /\ q[1] >= 0

\* C24: after any sequence of events backspace_ratio lies in [0, 1], and
\* every field of the signal vector is a number >= 0: no quotient among them
\* was computed with a zero divisor.
C24_SignalsFiniteNonNegative ==
    LET sig == detector.signals
    IN  /\ FiniteNonNegative(sig.backspace_ratio)
        /\ sig.backspace_ratio[1] <= sig.backspace_ratio[2]
        /\ \A q \in {sig.idle_time_total, sig.idle_time_max, sig.edit_velocity,
                      sig.error_persistence, sig.time_since_last_run,
                      sig.focus_time_avg, sig.comment_length_avg} :
               FiniteNonNegative(q)
        /\ \A k \in {sig.edit_events, sig.cursor_moves, sig.cursor_distance,
                      sig.error_events, sig.unique_errors, sig.error_repeat_count,
                      sig.run_attempt_count, sig.context_switches,
                      sig.comment_keywords} : k >= 0
        /\ \A b \in 1..3 : sig.cursor_entropy[b] >= 0

\* calculateSignals has run at time 0, when no time has elapsed since
\* construction, after a batch of deletions and a batch of insertions.
C24_Witness ==
    /\ detector.classifierRequests > 0
    /\ now = detector.startTime
    /\ detector.signals.edit_events = 2
    /\ detector.signals.backspace_ratio = <<1, 2>>


\* The mean of the ratios deletions / totalChanges of the edit batches so far
\* that had a non-zero character total; 0 when there was none.
MeanBatchRatio ==
    IF detector.ratioCount = 0 THEN Zero
    ELSE Frac(detector.ratioSum[1], detector.ratioSum[2] * detector.ratioCount)

\* C25: backspace_ratio is the mean of the per-batch ratios
\* deletions / (deletions + insertions) over the edit batches with a non-zero
\* character total; batches with a zero total do not enter this mean, nor
\* change any later one.
C25_BackspaceRatioIsMean == detector.signals.backspace_ratio = MeanBatchRatio


\* C26: the error_persistence that calculateSignals returns (here: to
\* checkIfStuck, which posts it) is lastErrorCount / error_events, and is 0
\* whenever error_events is 0, also when error_events has dropped back to 0.
C26_ErrorPersistenceFresh ==
    [][detector'.classifierRequests = detector.classifierRequests + 1 =>
         detector'.signals.error_persistence =
             IF detector'.signals.error_events = 0 THEN Zero
             ELSE Frac(detector'.lastErrorCount, detector'.signals.error_events)]_vars


\* C27: the unique_errors that calculateSignals returns is the number of
\* distinct messages in the error registry, the error_repeat_count it
\* returns is the number of registry entries counted more than once, and
\* error_repeat_count <= unique_errors at all times.
C27_ErrorCountsFromRegistry ==
    [][/\ detector'.classifierRequests = detector.classifierRequests + 1 =>
            /\ detector'.signals.unique_errors = Cardinality(detector'.errorMessages)
            /\ detector'.signals.error_repeat_count =
                   Cardinality({m \in detector'.errorMessages :
                                   detector'.errorCounts[m] > 1})
       /\ detector'.signals.error_repeat_count <= detector'.signals.unique_errors]_vars

\* calculateSignals has run after the same error was reported by two
\* diagnostics batches: one registry entry, counted twice.
C27_Witness ==
    /\ detector.classifierRequests > 0
    /\ detector.errorMessages = {"E1"}
    /\ detector.errorCounts["E1"] = 2
    /\ detector.signals.unique_errors = 1
    /\ detector.signals.error_repeat_count = 1


\* The inserted fragments of a batch that hold a comment marker and at least
\* one word of the vocabulary.
KeywordFragments(changes) ==
    {i \in 1..Len(changes) :
        changes[i].length > 0 /\ changes[i].marker /\ changes[i].words # {}}

\* C28: comment_keywords counts fragments: an edit batch increases it by the
\* number of its inserted fragments that hold a comment marker and at least
\* one vocabulary word, by exactly 1 for each such fragment however many
\* vocabulary words it holds, and by nothing for any other fragment.
C28_CommentKeywordsCountsFragments ==
    [][\A changes \in EditBatches :
          OnTextChange(changes) =>
              detector'.signals.comment_keywords =
                  detector.signals.comment_keywords + Cardinality(KeywordFragments(changes))]_vars


\* C29: the focus ring never holds more than 20 durations; a duration is
\* recorded at the end of the ring, after the oldest one has been evicted if
\* the ring held 20, so that the ring is the last (at most 20) durations in
\* the order they were recorded; and the focus_time_avg that
\* calculateSignals returns is the arithmetic mean of the ring.
C29_FocusRingKeepsLast20 ==
    [][/\ Len(detector'.fileTimes) <= 20
       /\ detector'.signals.context_switches # detector.signals.context_switches =>
            LET timeOnFile == Seconds(now - detector.fileStartTime)
            IN  detector'.fileTimes =
                    IF Len(detector.fileTimes) < 20
                    THEN Append(detector.fileTimes, timeOnFile)
                    ELSE Append(Tail(detector.fileTimes), timeOnFile)
       /\ (/\ detector'.classifierRequests = detector.classifierRequests + 1
           /\ detector'.fileTimes # <<>>) =>
            LET sum == SumFracs(detector'.fileTimes)
                avg == detector'.signals.focus_time_avg
            IN  avg[1] * sum[2] * Len(detector'.fileTimes) = sum[1] * avg[2]]_vars

\* A 21st duration, of 10 s, has been recorded after twenty of 0 s: the ring
\* holds 20 durations, the newest last, and calculateSignals has returned
\* their mean, 10 / 20 s.
C29_Witness ==
    /\ detector.signals.context_switches = 21
    /\ Len(detector.fileTimes) = 20
    /\ detector.fileTimes[1] = Zero
    /\ detector.fileTimes[20] = Seconds(10000)
    /\ detector.classifierRequests > 0
    /\ detector.signals.focus_time_avg = Frac(1, 2)


\* The Shannon entropy of the bin counts is 0: all deltas fall in one bin, or
\* there is no delta.
EntropyIsZero(bins) == Cardinality({b \in 1..3 : bins[b] > 0}) <= 1

\* C30: cursor_entropy is 0 whenever fewer than 2 cursor positions have been
\* recorded since the signals were reset, whatever edits, diagnostics, runs
\* and file switches happened in between.
C30_EntropyZeroBelowTwoPositions ==
    Len(detector.cursorPositions) < 2 => EntropyIsZero(detector.signals.cursor_entropy)

\* calculateSignals has run with one cursor position recorded, after a
\* diagnostics batch and a debug run.
C30_Witness ==
    /\ Len(detector.cursorPositions) = 1
    /\ detector.classifierRequests > 0
    /\ detector.signals.unique_errors = 2
    /\ detector.signals.run_attempt_count = 1
    /\ detector.signals.cursor_moves = 1


\* The sum of the lengths of the comment fragments inserted so far, divided
\* by their number; 0 when there was none.
MeanCommentLength ==
    IF detector.commentCount = 0 THEN Zero
    ELSE Frac(detector.commentSum, detector.commentCount)

\* C31: comment_length_avg is the mean of the lengths of the comment
\* fragments inserted since the reset: after k of them, with any number of
\* other edits in between, it is the sum of their lengths divided by k.
C31_CommentLengthIsMean == detector.signals.comment_length_avg = MeanCommentLength


\* C32: a classifier request that fails is swallowed by checkIfStuck: the
\* failure ends in the message of the catch block, the monitoring flag, the
\* handle held and the polling timers are left as they were, and while
\* monitoring is on a polling timer stays armed for the next poll.
C32_ClassifierFailureSwallowed ==
    [][detector'.failureNotices # detector.failureNotices =>
         /\ detector'.failureNotices = detector.failureNotices + 1
         /\ detector'.monitoring = detector.monitoring
         /\ detector'.monitoringInterval = detector.monitoringInterval
         /\ detector'.intervals = detector.intervals
         /\ detector'.monitoring =>
               \E i \in 1..Len(detector'.intervals) : detector'.intervals[i] >= now]_vars

\* The poll of the second period has been made by the timer after the
\* request of the first poll had failed.
C32_Witness ==
    /\ detector.monitoring
    /\ detector.failureNotices = 1
    /\ detector.classifierRequests = 2
    /\ detector.classifierOutstanding = 1
    /\ now >= 2 * POLL_MS


\* The bins (1: delta <= 5, 2: 6..20, 3: > 20) that the deltas between
\* consecutive positions fall into.
DeltaBin(delta) == IF delta <= 5 THEN 1 ELSE IF delta <= 20 THEN 2 ELSE 3

DeltaBinsUsed(positions) ==
    {DeltaBin(Abs(positions[i] - positions[i - 1])) : i \in 2..Len(positions)}

\* C33: the cursor buffer never holds more than 50 lines; a line is recorded
\* at its end, after the oldest one has been evicted if it held 50, so that
\* it holds the most recent lines in arrival order; and the entropy that
\* calculateSignals computes from a buffer of at least 2 lines is 0 exactly
\* when all deltas between consecutive lines fall into one bin, and positive
\* when two or more bins are used.
C33_CursorBufferAndEntropy ==
    [][/\ Len(detector'.cursorPositions) <= 50
       /\ detector'.signals.cursor_moves # detector.signals.cursor_moves =>
            detector'.cursorPositions =
                IF Len(detector.cursorPositions) < 50
                THEN Append(detector.cursorPositions, detector'.lastCursorLine)
                ELSE Append(Tail(detector.cursorPositions), detector'.lastCursorLine)
       /\ (/\ detector'.classifierRequests = detector.classifierRequests + 1
           /\ Len(detector'.cursorPositions) >= 2) =>
            /\ Cardinality(DeltaBinsUsed(detector'.cursorPositions)) = 1
                  <=> EntropySign(detector'.signals.cursor_entropy) = 0
            /\ Cardinality(DeltaBinsUsed(detector'.cursorPositions)) >= 2
                  <=> EntropySign(detector'.signals.cursor_entropy) = 1]_vars

\* A 51st line has been recorded and the first one (line 0) evicted: the
\* buffer starts with lines 11 and 40, and calculateSignals has computed the
\* entropy of its 49 deltas, which use two bins.
C33_Witness ==
    /\ detector.signals.cursor_moves = 51
    /\ Len(detector.cursorPositions) = 50
    /\ detector.cursorPositions[1] = 11
    /\ detector.cursorPositions[2] = 40
    /\ detector.classifierRequests > 0
    /\ detector.signals.cursor_entropy = <<48, 0, 1>>

\* C34: the steps of a dispatch happen in this order.  A dispatch starts with
\* the guard set and exactly one hint request; the only categorization is made
\* when that request has succeeded or failed, and records the outcome; the
\* only analytics write follows the categorization and carries that outcome;
\* the 10 s timer is started only when the analytics write has returned; and
\* the guard is cleared only by that timer, 10 s after the write returned.
Stage(pc) ==
    CASE pc = "hint" -> 1
      [] pc = "categorize" -> 2
      [] pc = "analytics" -> 3
      [] pc = "cooldown" -> 4
      [] OTHER -> 0

C34_DispatchStepsInOrder ==
    [][/\ Len(dispatches') > Len(dispatches) =>
            /\ isHintInProgress'
            /\ dispatches' = Append(dispatches,
                   [pc |-> "hint", heuristic |-> dispatches'[Len(dispatches')].heuristic,
                    started |-> now, hint |-> "none", guardDeadline |-> Undefined])
            /\ hintRequests' = hintRequests + 1
            /\ UNCHANGED <<categorizeCalls, analyticsWrites>>
       /\ hintRequests' # hintRequests => Len(dispatches') > Len(dispatches)
       /\ categorizeCalls' # categorizeCalls =>
            /\ categorizeCalls' = categorizeCalls + 1
            /\ UNCHANGED <<hintRequests, analyticsWrites, isHintInProgress>>
            /\ \E i \in 1..Len(dispatches) :
                  /\ dispatches[i].pc = "hint"
                  /\ dispatches'[i].hint \in {"ok", "fail"}
                  /\ dispatches' = [dispatches EXCEPT ![i].pc = "categorize",
                                                      ![i].hint = dispatches'[i].hint]
       /\ analyticsWrites' # analyticsWrites =>
            /\ analyticsWrites' = analyticsWrites + 1
            /\ UNCHANGED <<hintRequests, categorizeCalls, isHintInProgress>>
            /\ \E i \in 1..Len(dispatches) :
                  /\ dispatches[i].pc = "categorize"
                  /\ dispatches' = [dispatches EXCEPT ![i].pc = "analytics"]
       /\ Len(dispatches') = Len(dispatches) =>
            \A i \in 1..Len(dispatches) :
               /\ Stage(dispatches'[i].pc) \in {0, Stage(dispatches[i].pc),
                                                 Stage(dispatches[i].pc) + 1}
               /\ dispatches'[i].guardDeadline # dispatches[i].guardDeadline =>
                     /\ dispatches[i].pc = "analytics"
                     /\ dispatches'[i].pc = "cooldown"
                     /\ dispatches'[i].guardDeadline = now + 10000
       /\ (isHintInProgress /\ ~isHintInProgress') =>
            /\ UNCHANGED <<hintRequests, categorizeCalls, analyticsWrites>>
            /\ \E i \in 1..Len(dispatches) :
                  /\ dispatches[i].pc = "cooldown"
                  /\ dispatches[i].guardDeadline = now
                  /\ dispatches' = RemoveAt(dispatches, i)
       /\ hintRequests' >= categorizeCalls'
       /\ categorizeCalls' >= analyticsWrites']_vars

\* A dispatch whose hint request failed has been categorized and written to
\* analytics once, and its 10 s timer is running while the guard is still set.
C34_Witness ==
    /\ isHintInProgress
    /\ hintRequests = 1 /\ categorizeCalls = 1 /\ analyticsWrites = 1
    /\ \E i \in 1..Len(dispatches) :
          /\ dispatches[i].pc = "cooldown"
          /\ dispatches[i].hint = "fail"
          /\ dispatches[i].guardDeadline > now

\* C35: an evaluation that triggers with the caret on a context word that is
\* empty, shorter than 3 characters, 'const' or 'let' starts no dispatch: the
\* guard, the dispatches and the request and write counters are as before (a
\* guard that was false stays false), and the window of the triggering
\* channel is empty after the evaluation.
RejectedWords == {w \in Words : RejectedWord(w)}

C35_RejectedWordClearsWindow ==
    [][\A editor \in [present : {TRUE}, line : FarLines], wordRange \in RejectedWords :
         /\ (TextEvent(PlainEdit, editor, "a.ts", wordRange) /\ lastEval'.shouldTrigger) =>
               /\ UNCHANGED dispatchVars
               /\ changeHistory' = <<>>
         /\ (CursorEvent(JumpLine, "a.ts", editor, wordRange) /\ lastEval'.shouldTrigger) =>
               /\ UNCHANGED dispatchVars
               /\ cursorHistory' = <<>>
         /\ (ActiveEditorEvent(editor, FALSE, CycleFile, wordRange) /\ lastEval'.shouldTrigger) =>
               /\ UNCHANGED dispatchVars
               /\ fileHistory' = <<>>
         /\ \A filePath \in Files :
              (IdleTimerFires(editor, filePath, wordRange) /\ lastEval'.shouldTrigger) =>
                 UNCHANGED dispatchVars]_vars

\* The churn rule has just triggered with the guard false and the caret on a
\* rejected word: the edit window is empty and no dispatch was ever started.
C35_Witness ==
    /\ lastEval.heuristic = "churn" /\ lastEval.shouldTrigger /\ lastEval.offered
    /\ changeHistory = <<>>
    /\ ~isHintInProgress /\ hintRequests = 0 /\ analyticsWrites = 0

\* C38: between any two direct-answer requests at least 5 minutes elapse: a
\* request is sent only when none was sent before or the last one was sent
\* 300000 ms ago or earlier.
C38_AnswersFiveMinutesApart ==
    [][detector'.answerPosts > detector.answerPosts =>
         \/ detector.lastAnswerTime = Undefined
         \/ now - detector.lastAnswerTime >= 300000]_vars

\* C36: the polling timer exists if and only if the monitoring flag is true:
\* after every step at most one polling interval is active, one is active
\* exactly when monitoring is true, and a poll made by a polling timer is
\* never made after dispose.
C36_PollingTimerIffMonitoring ==
    [][/\ Len(detector'.intervals) <= 1
       /\ detector'.monitoring <=> Len(detector'.intervals) = 1
       /\ detector'.classifierRequests > detector.classifierRequests =>
             ~detector.disposed]_vars

\* C37: once the 2-second delayed start has run, monitoring is enabled,
\* whatever toggleMonitoring commands were run before it.
C37_DelayedStartEnablesMonitoring ==
    [][(detector.startTimer # Undefined /\ detector'.startTimer = Undefined) =>
         detector'.monitoring]_vars

\* C39: however often the start command is run, with or without a stop in
\* between, exactly one listener is registered per channel while the engine
\* runs and none when it is stopped; a start leaves one listener per channel
\* and empty windows, with no idle deadline of the previous run pending; and
\* an event that is recorded is appended to its window once (unless the
\* evaluation empties that window) and leaves exactly one idle deadline armed.
OneListener(handle) == IF handle THEN 1 ELSE 0

C39_OneListenerPerChannel ==
    [][/\ registered'.text = OneListener(textListener')
       /\ registered'.cursor = OneListener(cursorListener')
       /\ registered'.editor = OneListener(activeEditorListener')
       /\ (StartCommand /\ userMode = "student") =>
            /\ registered' = [text |-> 1, cursor |-> 1, editor |-> 1]
            /\ changeHistory' = <<>> /\ cursorHistory' = <<>> /\ fileHistory' = <<>>
            /\ pendingIdle' = {}
       /\ \A editor \in [present : {TRUE}, line : FarLines], wordRange \in WordRanges :
            /\ TextEvent(PlainEdit, editor, "a.ts", wordRange) =>
                  /\ changeHistory' \in
                        {<<>>, Append(Prune(changeHistory, now), [timestamp |-> now, changes |-> 1])}
                  /\ pendingIdle' = {now + 30000}
            /\ CursorEvent(JumpLine, "a.ts", editor, wordRange) =>
                  /\ cursorHistory' \in
                        {<<>>, Append(Prune(cursorHistory, now), [timestamp |-> now, line |-> JumpLine])}
                  /\ pendingIdle' = {now + 30000}
            /\ ActiveEditorEvent(editor, FALSE, CycleFile, wordRange) =>
                  /\ fileHistory' \in
                        {<<>>, Append(Prune(fileHistory, now), [timestamp |-> now, filePath |-> CycleFile])}
                  /\ pendingIdle' = {now + 30000}]_vars

\* The start command has been run again after a run in which a dispatch was
\* started: the dispatch is still outstanding, one listener per channel is
\* registered, and the windows, the snapshot and the idle deadline of the
\* previous run are gone.
C39_Witness ==
    /\ isHintInProgress
    /\ textListener /\ cursorListener /\ activeEditorListener
    /\ registered = [text |-> 1, cursor |-> 1, editor |-> 1]
    /\ changeHistory = <<>> /\ cursorHistory = <<>> /\ fileHistory = <<>>
    /\ lastActivity = NoActivity
    /\ pendingIdle = {}
    /\ lastEval = NoEval

\* C40: an edit event that is an undo or a redo, that carries no content
\* change, or that belongs to a webview document leaves the engine as it was:
\* nothing is appended to (or pruned from) the windows, the idle watchdog and
\* the activity snapshot are not touched, no dispatch is started, and the
\* churn rule is not evaluated.
IgnoredChanges ==
    {event \in TextChanges :
        event.webview \/ event.changes = 0 \/ event.reason \in {"undo", "redo"}}

C40_IgnoredEditsLeaveEngineUnchanged ==
    [][\A event \in IgnoredChanges, editor \in OneEditor, wordRange \in WordRanges :
         TextEvent(event, editor, "a.ts", wordRange) =>
            /\ UNCHANGED <<changeHistory, cursorHistory, fileHistory>>
            /\ UNCHANGED <<lastActivity, idleTimer, pendingIdle>>
            /\ UNCHANGED <<isHintInProgress, dispatches, hintRequests, analyticsWrites>>
            /\ lastEval'.heuristic = "none"]_vars

\* An ignored edit event has arrived in the instant of the fifth counted edit
\* of the window, where a sixth counted edit would have triggered churn: the
\* window still holds 5 edits, the last one made now, and the step just taken
\* evaluated nothing.
C40_Witness ==
    /\ textListener
    /\ Len(changeHistory) = 5
    /\ changeHistory[5].timestamp = now
    /\ now - changeHistory[1].timestamp < 5000
    /\ lastEval = NoEval
    /\ hintRequests = 0

====
